---- MODULE Spec2Model ----
(***************************************************************************)
(* Selection-and-indexing engine of syncopy (datatype/data_methods.py) and *)
(* the trial-boundary derivation exercised by tests/test_discretedata.py.  *)
(*                                                                         *)
(* Python values are modelled as follows.  An optional integer is a tuple: *)
(* None is <<>> and the integer v is <<v>>.  A slice is a record           *)
(* [start, stop, step] of optional integers, a range a record              *)
(* [start, stop, step] of integers.  Trial numbers and array indices are   *)
(* 0-based as in the code; TLA+ sequences are 1-based, so row k of an      *)
(* array a is a[k + 1].                                                    *)
(*                                                                         *)
(* data_methods.py refers to the data object both as `obj` and as `self`;  *)
(* the model reads both names as the one object the function is given.     *)
(*                                                                         *)
(* definetrial is called by tests/test_discretedata.py but its body is not *)
(* part of these sources: its steps follow section 4.5 of the              *)
(* specification, its arithmetic the expected values the test computes.    *)
(***************************************************************************)
EXTENDS Integers, Sequences, FiniteSets, TLC

\* ------------------------------------------------------------------ bounds
\* number of files loaded into one VirtualData object
MaxSegments == 3
\* largest number of rows of one file
MaxSegRows == 3
\* number of trials of the source object
MaxTrials == 2
\* longest source trial, in samples
MaxLen == 3
\* latest first sample of a source trial
MaxStart == 3
\* longest reference vector of a dimension, and longest index list
MaxRef == 3
\* largest coordinate value of a reference vector
MaxVal == 4
\* longest event stream
MaxEvents == 3
\* latest sample of an event
MaxEvtSample == 4
\* longest per-trial sequence of start or stop codes
MaxCodeSeq == 2
\* longest event stream searched for start and stop codes
MaxStream == 5
\* np.arange(0, ns, 5): the distance of two events of the stream
SampleStep == 5
\* sr_e = 2: the samplerate of the event dataset searched for start and stop
EventSamplerate == 2

\* ---------------------------------------------------------- Python helpers
None == <<>>
Some(v) == <<v>>
IsNone(x) == x = <<>>
Val(x) == x[1]

Min(a, b) == IF a <= b THEN a ELSE b
Max(a, b) == IF a >= b THEN a ELSE b

Slice(a, b, c) == [start |-> a, stop |-> b, step |-> c]
Range(a, b, c) == [start |-> a, stop |-> b, step |-> c]

\* len(range(lo, hi, step)), step /= 0
RangeLen(r) ==
    IF r.step > 0
    THEN IF r.start < r.stop THEN (r.stop - r.start - 1) \div r.step + 1 ELSE 0
    ELSE IF r.start > r.stop THEN (r.start - r.stop - 1) \div (-r.step) + 1 ELSE 0

\* slice.indices(len): the (start, stop, step) the slice means on a sequence
\* of length len
SliceIndices(s, len) ==
    LET step  == IF IsNone(s.step) THEN 1 ELSE Val(s.step)
        lower == IF step > 0 THEN 0 ELSE -1
        upper == IF step > 0 THEN len ELSE len - 1
        clip(x) == IF x < 0 THEN Max(x + len, lower) ELSE Min(x, upper)
        start == IF IsNone(s.start)
                 THEN (IF step > 0 THEN lower ELSE upper)
                 ELSE clip(Val(s.start))
        stop  == IF IsNone(s.stop)
                 THEN (IF step > 0 THEN upper ELSE lower)
                 ELSE clip(Val(s.stop))
    IN  Range(start, stop, step)

\* r[s] for a range r and a slice s: again a range
RangeGetSlice(r, s) ==
    LET i == SliceIndices(s, RangeLen(r))
    IN  Range(r.start + i.start * r.step, r.start + i.stop * r.step, r.step * i.step)

\* the indices a range enumerates, as a set
RangeSet(r) ==
    { r.start + k * r.step : k \in 0 .. (RangeLen(r) - 1) }

\* ---------------------------------------- _makeidx: one dimensional selector
\* exceptions and resolved indices
Raise(exc) == [kind |-> "error", exc |-> exc]
IsError(r) == r.kind = "error"
SliceIdx(a, b, c) == [kind |-> "slice", slice |-> Slice(a, b, c)]
ListIdx(l) == [kind |-> "list", list |-> l]
\* a Python int
IntIdx(i) == [kind |-> "int", v |-> i]
\* an element ref[i] of the reference array (a numpy scalar, not a Python int)
RefElem(x) == [kind |-> "refvalue", v |-> x]

\* selectors as the caller writes them
NumB(x) == [t |-> "num", v |-> x]
NoneB == [t |-> "none", v |-> 0]
StrB == [t |-> "str", v |-> 0]
OtherB == [t |-> "other", v |-> 0]
TupleSel(elems) == [type |-> "tuple", elems |-> elems]
SliceSel(sl) == [type |-> "slice", slice |-> sl]
ListSel(l) == [type |-> "list", list |-> l]
FloatSel(x) == [type |-> "float", v |-> x]
IntSel(i) == [type |-> "int", v |-> i]
OtherSel == [type |-> "other"]

Abs(x) == IF x < 0 THEN -x ELSE x

\* np.abs(ref - sel).argmin(): the first index (0-based) of least distance
ArgminAbs(r, x) ==
    CHOOSE i \in 0 .. (Len(r) - 1) :
        \A j \in 0 .. (Len(r) - 1) :
            \/ Abs(r[i + 1] - x) < Abs(r[j + 1] - x)
            \/ (Abs(r[i + 1] - x) = Abs(r[j + 1] - x) /\ i <= j)

\* list(ref).index(x): the first index (0-based) holding x; raises if none
HasValue(r, x) == \E i \in 1 .. Len(r) : r[i] = x
ListIndexOf(r, x) ==
    (CHOOSE i \in 1 .. Len(r) : r[i] = x /\ \A j \in 1 .. (i - 1) : r[j] /= x) - 1

\* np.unique(np.diff(l)).size
UniqueDiffSize(l) == Cardinality({ l[k + 1] - l[k] : k \in 1 .. (Len(l) - 1) })

\* the list checked against the upper end of the range only
InRange_UpperOnly(l, n) == \A k \in 1 .. Len(l) : l[k] <= n - 1

\* set(l).issubset(range(n))
InRange(l, n) == \A k \in 1 .. Len(l) : l[k] \in 0 .. (n - 1)

\* a numeric bound snapped to the nearest value whatever exact_match says
ResolveBound_Snap(r, sel, pos, exact) ==
    CASE sel.t = "str" -> Raise("SPYValueError")
      [] sel.t = "num" -> RefElem(r[ArgminAbs(r, sel.v) + 1])
      [] sel.t = "none" ->
            IF pos = 0 THEN RefElem(r[1]) ELSE RefElem(r[Len(r)])
      [] OTHER -> Raise("SPYTypeError")

\* lines 258-278: one bound of a value-range tuple; position 0 or 1
ResolveBound(r, sel, pos, exact) ==
    CASE sel.t = "str" -> Raise("SPYValueError")
      [] sel.t = "num" ->
            IF ~exact THEN RefElem(r[ArgminAbs(r, sel.v) + 1])
            ELSE IF HasValue(r, sel.v) THEN IntIdx(ListIndexOf(r, sel.v))
            ELSE Raise("SPYValueError")
      [] sel.t = "none" ->
            IF pos = 0 THEN RefElem(r[1]) ELSE RefElem(r[Len(r)])
      [] OTHER -> Raise("SPYTypeError")

\* lines 252-280: value-range selection
ResolveTuple(r, elems, exact) ==
    IF Len(elems) /= 2 THEN Raise("SPYValueError")
    ELSE LET b0 == ResolveBound(r, elems[1], 0, exact)
             b1 == ResolveBound(r, elems[2], 1, exact)
         IN  IF IsError(b0) THEN b0
             ELSE IF IsError(b1) THEN b1
             ELSE SliceIdx(Some(b0.v), Some(b1.v + 1), None)

\* lines 283-288: index-range selection
ResolveSlice(r, sl) ==
    IF RangeLen(SliceIndices(sl, Len(r))) = 0 THEN Raise("SPYValueError")
    ELSE SliceIdx(sl.start, sl.stop, sl.step)

\* lines 291-298: multi-index selection
ResolveList(r, l) ==
    IF ~InRange(l, Len(r)) THEN Raise("SPYValueError")
    ELSE IF UniqueDiffSize(l) = 1 THEN SliceIdx(Some(l[1]), Some(l[Len(l)] + 1), None)
    ELSE ListIdx(l)

\* lines 301-308: single-value selection
ResolveFloat(r, x, exact) ==
    IF ~exact THEN RefElem(r[ArgminAbs(r, x) + 1])
    ELSE IF HasValue(r, x) THEN IntIdx(ListIndexOf(r, x))
    ELSE Raise("SPYValueError")

\* lines 311-314: single-index selection
ResolveInt(r, i) ==
    IF i \notin 0 .. (Len(r) - 1) THEN Raise("SPYValueError") ELSE IntIdx(i)

\* a selector of no supported type answered like a value that is not found
MakeIdxDim_OtherAsValue(r, sel, exact) ==
    CASE sel.type = "tuple" -> ResolveTuple(r, sel.elems, exact)
      [] sel.type = "slice" -> ResolveSlice(r, sel.slice)
      [] sel.type = "list"  -> ResolveList(r, sel.list)
      [] sel.type = "float" -> ResolveFloat(r, sel.v, exact)
      [] sel.type = "int"   -> ResolveInt(r, sel.v)
      [] OTHER -> Raise("SPYValueError")

\* lines 247-319: the body of the loop over the dimensional selectors
MakeIdxDim(r, sel, exact) ==
    CASE sel.type = "tuple" -> ResolveTuple(r, sel.elems, exact)
      [] sel.type = "slice" -> ResolveSlice(r, sel.slice)
      [] sel.type = "list"  -> ResolveList(r, sel.list)
      [] sel.type = "float" -> ResolveFloat(r, sel.v, exact)
      [] sel.type = "int"   -> ResolveInt(r, sel.v)
      [] OTHER -> Raise("SPYTypeError")

\* ------------------------------------------------------------ VirtualData
\* a segment: one file opened by np.memmap(fname, mode="r", shape=(M, N));
\* its rows are the entries along the axis the segments are joined on
Segment(k, n) == [mode |-> "r", rows |-> [i \in 1 .. n |-> <<k, i - 1>>]]

\* number of rows of the segments before segment k
RECURSIVE RowsBefore(_, _)
RowsBefore(segs, k) ==
    IF k = 1 THEN 0 ELSE RowsBefore(segs, k - 1) + Len(segs[k - 1].rows)

\* the logical shape along the joined axis
LogicalRows(segs) == RowsBefore(segs, Len(segs) + 1)

\* the rows of segment k read at the positions of the request, not moved
\* by the rows before the segment
SegmentPart_NoOffset(segs, k, lo, hi) ==
    LET n == Len(segs[k].rows)
        a == Min(lo, n)
        b == Min(hi, n)
    IN  IF a < b THEN SubSeq(segs[k].rows, a + 1, b) ELSE <<>>

\* the part of the logical range [lo, hi) that lies in segment k, read from
\* the segment
SegmentPart(segs, k, lo, hi) ==
    LET off == RowsBefore(segs, k)
        n   == Len(segs[k].rows)
        a   == Max(lo, off) - off
        b   == Min(hi, off + n) - off
    IN  IF a < b THEN SubSeq(segs[k].rows, a + 1, b) ELSE <<>>

\* __getitem__ for the range [lo, hi): the parts of segments 1 .. k joined
\* in the order of the segments
RECURSIVE GetItemUpTo(_, _, _, _)
GetItemUpTo(segs, k, lo, hi) ==
    IF k = 0 THEN <<>>
    ELSE GetItemUpTo(segs, k - 1, lo, hi) \o SegmentPart(segs, k, lo, hi)

GetItem(segs, lo, hi) == GetItemUpTo(segs, Len(segs), lo, hi)

\* ------------------------------------------------------------------ state
VARIABLES
    pc,              \* position of the running operation
    dimord,          \* obj.dimord: the dimension names in storage order
    obj_sampleinfo,  \* obj.sampleinfo: one <<start, stop>> per trial
    obj_t0,          \* obj._t0: one offset per trial
    obj_trialinfo,   \* obj.trialinfo: one row of further columns per trial
    obj_trialid,     \* obj.trialid: one trial number per row of a discrete obj.data
    trialdefinition, \* the argument of redefinetrial
    headers,         \* load_binary_esi: the header of every file, here its number of rows
    dsets,           \* load_binary_esi: the memory maps opened so far
    out_data,        \* out.data: the VirtualData object made of the memory maps
    va_read,         \* the last range read from out.data and the rows returned
    files,           \* the array files on disk: name -> shape and samples written
    trials,          \* the trial filter: trial numbers, in the order given
    deepcopy,        \* the switch deepcopy (line 112 may set it)
    time_slice,      \* the slice applied to every trial's time axis
    sampleinfo,      \* the local array `sampleinfo`
    stop,            \* the cursor `stop` of the renumbering loop
    sk,              \* index of the loop over the selected trials
    target_dat,      \* the local `target_dat`: the handle to the new array, or Unbound
    idx,             \* the array multi-index, one entry per dimension
    target_shape,    \* shape of the target array, one entry per dimension
    target,          \* the object returned
    ref,             \* reference vector of the dimension `lbl`
    selection,       \* the selector given for the dimension `lbl`
    exact_match,     \* the switch exact_match
    selectors,       \* selectors[lbl], the resolved index (or the error raised)
    entry,           \* what the caller passed: the state at the call (never written)
    evt_data,        \* the event stream: <<sample, eventid>> rows sorted by sample
    evt_samplerate,  \* samplerate of the event dataset
    tgt,             \* the dataset definetrial is called on
    kw,              \* the keywords given to definetrial
    cursor,          \* number of events of the stream already consumed
    cur_start,       \* start boundary of the trial being derived
    trl,             \* the boundaries derived so far, in 1/evt_samplerate seconds
    exc,             \* the exception that ended the call, or NoExc
    tgt_sampleinfo   \* sampleinfo assigned to the dataset (<<>> before)

vaVars == <<headers, dsets, out_data, va_read>>
objVars == <<dimord, obj_sampleinfo, obj_t0, obj_trialinfo, obj_trialid, trialdefinition, vaVars>>
renumVars == <<trials, time_slice, sampleinfo, stop, sk, target_dat>>
idxVars == <<ref, selection, exact_match, selectors, entry>>
dtVars == <<evt_data, evt_samplerate, tgt, kw, cursor, cur_start, trl, tgt_sampleinfo>>
vars == <<pc, objVars, files, deepcopy, renumVars, idx, target_shape, target, idxVars, dtVars, exc>>

\* a local that names nothing: never assigned, or deleted
Unbound == [kind |-> "unbound"]

\* no exception was raised
NoExc == [kind |-> "none"]

\* redefinetrial is not running
TrlIdle ==
    /\ obj_t0 = <<>>
    /\ obj_trialinfo = <<>>
    /\ obj_trialid = <<>>
    /\ trialdefinition = <<>>

\* no file is being loaded
VaIdle ==
    /\ headers = <<>>
    /\ dsets = <<>>
    /\ out_data = Unbound
    /\ va_read = Unbound

\* definetrial is not running
DtIdle ==
    /\ exc = NoExc
    /\ evt_data = <<>>
    /\ evt_samplerate = 1
    /\ tgt = [kind |-> "none"]
    /\ kw = [mode |-> "none"]
    /\ cursor = 0
    /\ cur_start = 0
    /\ trl = <<>>
    /\ tgt_sampleinfo = <<>>

\* ------------------------------------------------- inputs of the selection
\* trial definitions: MaxTrials half-open pairs with start < stop
TrialPairs == { <<a, a + l>> : a \in 0 .. MaxStart, l \in 1 .. MaxLen }
SampleInfos == [1 .. MaxTrials -> TrialPairs]

\* np.arange(i, j): the trial filter a tuple (i, j) stands for
Arange(i, j) == [k \in 1 .. (j - i) |-> i + k - 1]
TrialFilters == { Arange(i, MaxTrials) : i \in 0 .. (MaxTrials - 1) }

\* time slices as they leave the time selector: slice(0, None) when no time
\* selection is given, slice(a, b + 1) from a list, a slice passed through
TimeSlices ==
    { Slice(Some(0), None, None),
      Slice(Some(1), None, None),
      Slice(Some(0), Some(1), None),
      Slice(None, None, Some(2)),
      Slice(None, None, Some(-1)) }

\* ------------------------------------- deep copy: renumbering of the trials
\* obj.dimord.index(lbl), 0-based
DimIndex(lbl) == (CHOOSE i \in 1 .. Len(dimord) : dimord[i] = lbl) - 1
Tid == DimIndex("time")

\* the one file that holds obj.data, and the file _gen_filename() names
ObjFile == "obj"
NewFile == "new"

\* number of samples of the recording: it holds every trial
ObjSamples(osi) ==
    CHOOSE n \in { osi[k][2] : k \in 1 .. Len(osi) } : \A k \in 1 .. Len(osi) : osi[k][2] <= n

\* obj.data.shape
ObjShape(dims, osi, r) ==
    [i \in 1 .. Len(dims) |-> IF dims[i] = "time" THEN ObjSamples(osi) ELSE Len(r)]

\* a file as allocated: its shape, nothing written yet
NewArray(shape) == [shape |-> shape, written |-> {}]

\* slice(None)
SliceAll == SliceIdx(None, None, None)

\* obj.copy(): the target shares the file and the trial definition of obj
ObjCopy(osi) ==
    [filename |-> ObjFile,
     data |-> [file |-> ObjFile, mode |-> "r+", index |-> <<>>],
     sampleinfo |-> osi]

\* the trial filter as the caller writes it
TrialsNone == [t |-> "none"]
TrialsTuple(a, b) == [t |-> "tuple", start |-> a, stop |-> b]
TrialsList(l) == [t |-> "list", list |-> l]
TrialsInt(i) == [t |-> "int", v |-> i]

\* no selector given for a dimension
Absent == [type |-> "absent"]

\* the arguments and the source object as they are when the call is made:
\* lbl is the keyword the dimensional selector is given under, time the
\* selector given under `time`, t0 the first time point of a trial, nonbool
\* the switches given as an int (1 or 0) where a bool is wanted
AtEntry(osi, fs, dc, lb, tm, tz, nb) ==
    [sampleinfo |-> osi, files |-> fs, dimord |-> dimord, deepcopy |-> dc, lbl |-> lb,
     time |-> tm, t0 |-> tz, nonbool |-> nb]

\* sampleinfo = obj.sampleinfo[trials, :] - obj.sampleinfo[trials[0], 0]
RelativeSampleinfo(osi, trls) ==
    [k \in 1 .. Len(trls) |->
        << osi[trls[k] + 1][1] - osi[trls[1] + 1][1],
           osi[trls[k] + 1][2] - osi[trls[1] + 1][1] >>]

\* the loop body with the new stop taken one sample too far
RenumberRow_InclusiveStop(row, cur, tsl) ==
    LET sinfo    == RangeGetSlice(Range(row[1], row[2], 1), tsl)
        nom_len  == sinfo.stop - sinfo.start
        start    == Min(sinfo.start, cur)
        real_len == Min(nom_len, sinfo.stop - cur)
    IN  [row |-> <<start, start + nom_len + 1>>, stop |-> start + real_len + 1]

\* one pass of the loop body for row `row` with cursor `cur`:
\* the new row and the new cursor
RenumberRow(row, cur, tsl) ==
    LET sinfo    == RangeGetSlice(Range(row[1], row[2], 1), tsl)
        nom_len  == sinfo.stop - sinfo.start
        start    == Min(sinfo.start, cur)
        real_len == Min(nom_len, sinfo.stop - cur)
    IN  [row |-> <<start, start + nom_len>>, stop |-> start + real_len + 1]

\* lines 124-125: offset correction, cursor at 0
RenumberInit ==
    /\ pc = "branch"
    /\ deepcopy
    /\ sampleinfo' = RelativeSampleinfo(obj_sampleinfo, trials)
    /\ stop' = 0
    /\ sk' = 0
    /\ pc' = "renumber"
    /\ UNCHANGED <<objVars, files, deepcopy, trials, time_slice, target_dat, idx, target_shape, target, idxVars, dtVars, exc>>

\* lines 126-132: one iteration of the loop over the rows of sampleinfo
RenumberStep ==
    /\ pc = "renumber"
    /\ sk < Len(sampleinfo)
    /\ LET r == RenumberRow(sampleinfo[sk + 1], stop, time_slice)
       IN  /\ sampleinfo' = [sampleinfo EXCEPT ![sk + 1] = r.row]
           /\ stop' = r.stop
    /\ sk' = sk + 1
    /\ UNCHANGED <<pc, objVars, files, deepcopy, trials, time_slice, target_dat, idx, target_shape, target, idxVars, dtVars, exc>>

\* line 136: the time-axis length of the target is the last trial's stop
SetTargetShape ==
    /\ pc = "renumber"
    /\ sk = Len(sampleinfo)
    /\ target_shape' = [target_shape EXCEPT ![Tid + 1] = sampleinfo[Len(sampleinfo)][2]]
    /\ pc' = "allocate"
    /\ UNCHANGED <<objVars, files, deepcopy, renumVars, idx, target, idxVars, dtVars, exc>>

InitRenumber ==
    /\ pc = "branch"
    /\ dimord = <<"time", "channel">>
    /\ obj_sampleinfo \in SampleInfos
    /\ ref = <<0>>
    /\ files = (ObjFile :> NewArray(ObjShape(dimord, obj_sampleinfo, ref)))
    /\ trials \in TrialFilters
    /\ deepcopy = TRUE
    /\ time_slice \in TimeSlices
    /\ sampleinfo = <<>>
    /\ stop = 0
    /\ sk = 0
    /\ target_dat = Unbound
    /\ idx = <<[kind |-> "slice", slice |-> time_slice], SliceAll>>
    /\ target_shape = ObjShape(dimord, obj_sampleinfo, ref)
    /\ target = ObjCopy(obj_sampleinfo)
    /\ selection = Absent
    /\ exact_match = FALSE
    /\ selectors = [kind |-> "absent"]
    /\ entry = AtEntry(obj_sampleinfo, files, deepcopy, "channel", Absent, 0, {})
    /\ DtIdle
    /\ TrlIdle
    /\ VaIdle

NextRenumber == RenumberInit \/ RenumberStep \/ SetTargetShape

SpecRenumber == InitRenumber /\ [][NextRenumber]_vars

\* ------------------------------------------------- renumbering: properties
RenumberDone == pc = "allocate"

\* the pre-copy row of the k-th selected trial (k from 1)
SourceRow(k) == obj_sampleinfo[trials[k] + 1]

\* the samples of the target a write to target[slice(start, stop)] touches
TargetSamples(row) ==
    RangeSet(SliceIndices(Slice(Some(row[1]), Some(row[2]), None), Max(target_shape[Tid + 1], 0)))

\* the selected source trials are in ascending order and pairwise disjoint
SourceAscendingDisjoint ==
    \A k \in 1 .. (Len(trials) - 1) : SourceRow(k)[2] <= SourceRow(k + 1)[1]

SourceHasGap ==
    \E k \in 1 .. (Len(trials) - 1) : SourceRow(k)[2] < SourceRow(k + 1)[1]

\* C1: after the renumbering the new sampleinfo starts at 0, its starts do
\* not decrease, no sample is left unused between consecutive trials, and
\* no new trial is longer than the trial was before the copy.  Stated on
\* the case the claim names: source trials in ascending order that do not
\* overlap (gaps allowed), and a time slice without a step.
C1_GapFree ==
    (RenumberDone /\ SourceAscendingDisjoint /\ IsNone(time_slice.step)) =>
        /\ sampleinfo[1][1] = 0
        /\ \A k \in 1 .. (Len(sampleinfo) - 1) :
              /\ sampleinfo[k][1] <= sampleinfo[k + 1][1]
              /\ sampleinfo[k + 1][1] <= sampleinfo[k][2]
        /\ \A k \in 1 .. Len(sampleinfo) :
              sampleinfo[k][2] - sampleinfo[k][1] <= SourceRow(k)[2] - SourceRow(k)[1]

\* C2 as claimed: the target ranges of any two distinct selected trials are
\* disjoint, whatever the trial filter.
C2_DisjointAlways ==
    RenumberDone =>
        \A k, l \in 1 .. Len(sampleinfo) :
            k /= l => TargetSamples(sampleinfo[k]) \cap TargetSamples(sampleinfo[l]) = {}

\* C2 as amended: when the selected source trials are ascending and
\* pairwise disjoint, the target ranges of any two distinct selected trials
\* are disjoint, so two writers never write the same sample.
C2_DisjointIfSourceDisjoint ==
    (RenumberDone /\ SourceAscendingDisjoint) =>
        \A k, l \in 1 .. Len(sampleinfo) :
            k /= l => TargetSamples(sampleinfo[k]) \cap TargetSamples(sampleinfo[l]) = {}

C2_Witness ==
    /\ RenumberDone
    /\ SourceAscendingDisjoint
    /\ SourceHasGap
    /\ Len(trials) = MaxTrials
    /\ \A k \in 1 .. Len(sampleinfo) : TargetSamples(sampleinfo[k]) /= {}

\* ------------------------------------------------- inputs of _makeidx
\* numeric reference vectors: strictly increasing coordinate values
RefVectors ==
    UNION { { r \in [1 .. n -> 0 .. MaxVal] : \A i \in 1 .. (n - 1) : r[i] < r[i + 1] }
            : n \in 1 .. MaxRef }

BoundValues == (-1) .. (MaxVal + 1)
IndexValues == (-1) .. MaxRef
Bounds == { NoneB, StrB, OtherB } \cup { NumB(x) : x \in BoundValues }
OptIndex == { None } \cup { Some(i) : i \in IndexValues }

TupleSels ==
    { TupleSel(<<a, b>>) : a \in Bounds, b \in Bounds }
        \cup { TupleSel(<<a>>) : a \in Bounds }
        \cup { TupleSel(<<NoneB, NoneB, NoneB>>) }
SliceSels ==
    { SliceSel(Slice(a, b, c)) : a \in OptIndex, b \in OptIndex,
                                 c \in { None, Some(2), Some(-1) } }
ListSels ==
    { ListSel(l) : l \in UNION { [1 .. n -> IndexValues] : n \in 0 .. MaxRef } }
FloatSels == { FloatSel(x) : x \in BoundValues }
IntSels == { IntSel(i) : i \in IndexValues }
Selections == TupleSels \cup SliceSels \cup ListSels \cup FloatSels \cup IntSels \cup { OtherSel }

\* ------------------------------------------------- _makeidx on its own
\* lines 224-238: the trial filter made an array of trial numbers; n trials
ProcessTrials(arg, n) ==
    CASE arg.t = "none" -> ListIdx(Arange(0, n))
      [] arg.t = "tuple" ->
            LET arr == Arange(arg.start, IF IsNone(arg.stop) THEN n ELSE Val(arg.stop))
            IN  IF InRange(arr, n) THEN ListIdx(arr) ELSE Raise("SPYValueError")
      [] arg.t = "list" ->
            IF InRange(arg.list, n) THEN ListIdx(arg.list) ELSE Raise("SPYValueError")
      [] OTHER -> Raise("TypeError")

\* lines 220-221: the keywords given are dimensions of the object
KnownDimensions ==
    selection.type /= "absent" => \E i \in 1 .. Len(dimord) : dimord[i] = entry.lbl

\* lines 208-321: the dimensions and the trial filter are checked, then the
\* dimensional selector is resolved; the time selector is passed on as it is
MakeIdx ==
    /\ pc = "makeidx"
    /\ LET t == ProcessTrials(trials, Len(obj_sampleinfo))
           s == IF selection.type = "absent" THEN [kind |-> "absent"]
                ELSE MakeIdxDim(ref, selection, exact_match)
       IN  IF ~KnownDimensions
           THEN /\ exc' = Raise("SPYValueError")
                /\ UNCHANGED <<trials, selectors>>
           ELSE IF IsError(t)
           THEN /\ exc' = t
                /\ UNCHANGED <<trials, selectors>>
           ELSE /\ trials' = t.list
                /\ selectors' = s
                /\ exc' = IF IsError(s) THEN s ELSE NoExc
    /\ pc' = IF IsError(exc') THEN "raised" ELSE "resolved"
    /\ UNCHANGED <<objVars, files, deepcopy, time_slice, sampleinfo, stop, sk, target_dat, idx, target_shape,
                   target, ref, selection, exact_match, entry, dtVars>>

InitMakeidx ==
    /\ pc = "makeidx"
    /\ ref \in RefVectors
    /\ selection \in Selections
    /\ exact_match \in BOOLEAN
    /\ selectors = [kind |-> "unset"]
    /\ dimord = <<"time", "channel">>
    /\ obj_sampleinfo = <<<<0, MaxLen>>>>
    /\ files = (ObjFile :> NewArray(ObjShape(dimord, obj_sampleinfo, ref)))
    /\ trials = TrialsNone
    /\ deepcopy = FALSE
    /\ time_slice = Slice(None, None, None)
    /\ sampleinfo = <<>>
    /\ stop = 0
    /\ sk = 0
    /\ target_dat = Unbound
    /\ idx = <<>>
    /\ target_shape = <<>>
    /\ target = [kind |-> "unset"]
    /\ entry = AtEntry(obj_sampleinfo, files, deepcopy, "channel", Absent, 0, {})
    /\ DtIdle
    /\ TrlIdle
    /\ VaIdle

NextMakeidx == MakeIdx

SpecMakeidx == InitMakeidx /\ [][NextMakeidx]_vars

\* ----------------------------------- the call of _makeidx as it is written
\* the dictionary `selectors` of _makeidx
SelectorDict(s) == [kind |-> "dict", items |-> s]

\* line 321: return selectors, trials
ReturnPair(sels, trls) == <<sels, trls>>

\* line 47: trials, selectors = _makeidx(obj, trials, deepcopy, exact_match,
\* **kwargs), with _makeidx run as lines 208-321 are written
MakeIdxCall ==
    /\ pc = "makeidx"
    /\ LET t == ProcessTrials(trials, Len(obj_sampleinfo))
           s == IF selection.type = "absent" THEN [kind |-> "absent"]
                ELSE MakeIdxDim(ref, selection, exact_match)
           returned == ReturnPair(SelectorDict(s), t)
       IN  IF ~KnownDimensions
           THEN /\ exc' = Raise("SPYValueError")
                /\ UNCHANGED <<trials, selectors>>
           ELSE IF IsError(t) \/ IsError(s)
           THEN /\ exc' = IF IsError(t) THEN t ELSE s
                /\ UNCHANGED <<trials, selectors>>
           ELSE /\ trials' = returned[1]
                /\ selectors' = returned[2]
                /\ exc' = NoExc
    /\ pc' = IF IsError(exc') THEN "raised" ELSE "resolved"
    /\ UNCHANGED <<objVars, files, deepcopy, time_slice, sampleinfo, stop, sk, target_dat, idx, target_shape,
                   target, ref, selection, exact_match, entry, dtVars>>

\* line 56: "time" in selectors.keys(); only a dictionary has keys
SelectorKeys ==
    /\ pc = "time"
    /\ IF selectors.kind = "dict"
       THEN pc' = "timeprep" /\ exc' = exc
       ELSE pc' = "raised" /\ exc' = Raise("AttributeError")
    /\ UNCHANGED <<objVars, files, deepcopy, renumVars, idx, target_shape, target, idxVars, dtVars>>

\* ------------------------------------------- _selectdata_continuous
\* the switches taken as they come
CheckSwitches_NoCheck ==
    /\ pc = "resolved"
    /\ pc' = "time"
    /\ UNCHANGED <<objVars, files, deepcopy, renumVars, idx, target_shape, target, idxVars, dtVars, exc>>

\* lines 50-53: the switches are Booleans
CheckSwitches ==
    /\ pc = "resolved"
    /\ IF entry.nonbool /= {}
       THEN pc' = "raised" /\ exc' = Raise("SPYTypeError")
       ELSE pc' = "time" /\ exc' = exc
    /\ UNCHANGED <<objVars, files, deepcopy, renumVars, idx, target_shape, target, idxVars, dtVars>>

\* lines 47-56 as they are written
NextCall == MakeIdxCall \/ CheckSwitches \/ SelectorKeys

SpecCall == InitMakeidx /\ [][NextCall]_vars

\* lines 94-97: the rows [sinfo.start, sinfo.stop - 1] of the selected trials
ShallowSampleinfo(osi, trls, tsl) ==
    [k \in 1 .. Len(trls) |->
        LET sinfo == RangeGetSlice(Range(osi[trls[k] + 1][1], osi[trls[k] + 1][2], 1), tsl)
        IN  <<sinfo.start, sinfo.stop - 1>>]

\* np.array(obj.time[trials[0]]): the time axis of the first selected trial,
\* one point per sample, the first at t0
TimeRef(osi, trls, tz) ==
    [i \in 1 .. (osi[trls[1] + 1][2] - osi[trls[1] + 1][1]) |-> tz + i - 1]

\* lines 65-73: one bound of a time range; None stays None
TimeBound(r, b, exact) ==
    CASE b.t = "none" -> [kind |-> "opt", v |-> None]
      [] b.t = "num" ->
            IF ~exact THEN [kind |-> "opt", v |-> Some(r[ArgminAbs(r, b.v) + 1])]
            ELSE IF HasValue(r, b.v) THEN [kind |-> "opt", v |-> Some(ListIndexOf(r, b.v))]
            ELSE Raise("SPYValueError")
      [] OTHER -> IF ~exact THEN Raise("TypeError") ELSE Raise("SPYValueError")

\* lines 82-83: the list holds sample indices of the time axis, equidistant
TimeListOk(r, l) == InRange(l, Len(r)) /\ UniqueDiffSize(l) = 1

\* lines 60-89: the time selector made a slice, or the exception raised;
\* `lbl` (line 79) and `lgl` (line 85) are read before they are assigned
TimeSlice(r, sel, exact) ==
    CASE sel.type = "tuple" ->
            IF Len(sel.elems) /= 2 THEN Raise("SPYValueError")
            ELSE LET b0 == TimeBound(r, sel.elems[1], exact)
                     b1 == TimeBound(r, sel.elems[2], exact)
                 IN  IF IsError(b0) THEN b0
                     ELSE IF IsError(b1) THEN b1
                     ELSE SliceIdx(b0.v, b1.v, None)
      [] sel.type = "slice" ->
            IF RangeLen(SliceIndices(sel.slice, Len(r))) = 0 THEN Raise("UnboundLocalError")
            ELSE SliceIdx(sel.slice.start, sel.slice.stop, sel.slice.step)
      [] sel.type = "list" ->
            IF ~TimeListOk(r, sel.list) THEN Raise("UnboundLocalError")
            ELSE SliceIdx(Some(sel.list[1]), Some(sel.list[Len(sel.list)] + 1), None)
      [] OTHER -> Raise("SPYTypeError")

\* lines 56-89: a time selection was given
TimePrepGiven ==
    /\ pc = "time"
    /\ entry.time.type /= "absent"
    /\ LET s == TimeSlice(TimeRef(obj_sampleinfo, trials, entry.t0), entry.time, exact_match)
       IN  IF IsError(s)
           THEN pc' = "raised" /\ exc' = s /\ time_slice' = time_slice
           ELSE pc' = "build" /\ exc' = exc /\ time_slice' = s.slice
    /\ UNCHANGED <<objVars, files, deepcopy, trials, sampleinfo, stop, sk, target_dat, idx, target_shape,
                   target, idxVars, dtVars>>

\* lines 56, 90-97: no time selection was given
TimePrepNone ==
    /\ pc = "time"
    /\ entry.time.type = "absent"
    /\ time_slice' = Slice(Some(0), None, None)
    /\ sampleinfo' = ShallowSampleinfo(obj_sampleinfo, trials, time_slice')
    /\ pc' = "build"
    /\ UNCHANGED <<objVars, files, deepcopy, trials, stop, sk, target_dat, idx, target_shape, target, idxVars, dtVars, exc>>

\* the test of line 111 applied to every index that is not a slice
ForcesCopy_AnyNonSlice(sel) == sel.kind \notin { "slice", "absent" }

\* the test of line 111 never applied
ForcesCopy_Never(sel) == FALSE

\* lines 106-113: does this resolved index force the copy path
ForcesCopy(sel) == sel.kind \notin { "slice", "int", "absent" }

\* lines 106-113: the extent of the target along the selector's dimension;
\* len() of anything but a list raises TypeError
SelectedExtent(sel, n) ==
    CASE sel.kind = "absent" -> n
      [] sel.kind = "slice" -> RangeLen(SliceIndices(sel.slice, n))
      [] sel.kind = "int" -> 1
      [] sel.kind = "list" -> Len(sel.list)
      [] OTHER -> -1

\* lines 100-115: the multi-index and the shape of the target
BuildIdx ==
    /\ pc = "build"
    /\ LET id    == DimIndex("channel")
           shape == ObjShape(dimord, obj_sampleinfo, ref)
           sel   == IF selectors.kind = "absent" THEN SliceAll ELSE selectors
       IN  /\ idx' = [i \in 1 .. Len(dimord) |->
                        IF i = Tid + 1 THEN [kind |-> "slice", slice |-> time_slice]
                        ELSE IF i = id + 1 THEN sel ELSE SliceAll]
           /\ deepcopy' = (deepcopy \/ ForcesCopy(selectors))
           /\ IF SelectedExtent(selectors, shape[id + 1]) < 0
              THEN /\ pc' = "raised"
                   /\ exc' = Raise("TypeError")
                   /\ target_shape' = shape
              ELSE /\ pc' = "copy"
                   /\ exc' = exc
                   /\ target_shape' =
                          [shape EXCEPT ![id + 1] = SelectedExtent(selectors, shape[id + 1])]
    /\ UNCHANGED <<objVars, files, renumVars, target, idxVars, dtVars>>

\* line 118: target = obj.copy()
CopyTarget ==
    /\ pc = "copy"
    /\ target' = ObjCopy(obj_sampleinfo)
    /\ pc' = "branch"
    /\ UNCHANGED <<objVars, files, deepcopy, renumVars, idx, target_shape, idxVars, dtVars, exc>>

\* lines 139-142: name a new file and allocate the target array in it
Allocate ==
    /\ pc = "allocate"
    /\ IF \E i \in 1 .. Len(target_shape) : target_shape[i] < 0
       THEN /\ pc' = "raised"
            /\ exc' = Raise("ValueError")
            /\ files' = files
            /\ sk' = sk
       ELSE /\ pc' = "copytrials"
            /\ exc' = exc
            /\ files' = files @@ (NewFile :> NewArray(target_shape))
            /\ sk' = 0
    /\ target' = [target EXCEPT !.filename = NewFile]
    /\ UNCHANGED <<objVars, deepcopy, trials, time_slice, sampleinfo, stop, target_dat, idx,
                   target_shape, idxVars, dtVars>>

\* open_memmap(filename, mode="r+")[index]: a writable view
OpenMemmapWritable(file, index) == [file |-> file, mode |-> "r+", index |-> index]

\* shape of source_trl[idx]: the trial of n samples under the multi-index;
\* an int index drops its dimension
RECURSIVE IndexedShape(_, _, _)
IndexedShape(index, n, i) ==
    IF i > Len(index) THEN <<>>
    ELSE LET len  == IF i = Tid + 1 THEN n ELSE Len(ref)
             rest == IndexedShape(index, n, i + 1)
         IN  CASE index[i].kind = "slice" ->
                      <<RangeLen(SliceIndices(index[i].slice, len))>> \o rest
               [] index[i].kind = "list" -> <<Len(index[i].list)>> \o rest
               [] OTHER -> rest

\* shape of the region target_idx addresses: all of every dimension but
\* time, slice(*sampleinfo[sk, :]) of the time axis
RegionShape(row) ==
    [target_shape EXCEPT ![Tid + 1] =
        RangeLen(SliceIndices(Slice(Some(row[1]), Some(row[2]), None), target_shape[Tid + 1]))]

\* numpy broadcasting for target_dat[...] = value: the value's dimensions,
\* aligned at the last one, are 1 or the target's
Broadcasts(src, dst) ==
    /\ Len(src) <= Len(dst)
    /\ \A k \in 0 .. (Len(src) - 1) :
          src[Len(src) - k] \in { 1, dst[Len(dst) - k] }

\* line 147: the loop over the selected trials begins, or goes on, and
\* lines 148-155 open the handle on the region of trial sk
OpenTrial ==
    /\ pc = "copytrials"
    /\ sk < Len(trials)
    /\ target_dat' = OpenMemmapWritable(NewFile, sampleinfo[sk + 1])
    /\ pc' = "writetrial"
    /\ UNCHANGED <<objVars, files, deepcopy, trials, time_slice, sampleinfo, stop, sk, idx,
                   target_shape, target, idxVars, dtVars, exc>>

\* line 156: target_dat[...] = source_trl[idx]; a value that does not
\* broadcast to the region raises, and line 157 is not run
WriteTrial ==
    /\ pc = "writetrial"
    /\ LET row == SourceRow(sk + 1)
           src == IndexedShape(idx, row[2] - row[1], 1)
       IN  IF Broadcasts(src, RegionShape(sampleinfo[sk + 1]))
           THEN /\ files' = [files EXCEPT ![NewFile].written = @ \cup TargetSamples(sampleinfo[sk + 1])]
                /\ pc' = "closetrial"
                /\ exc' = exc
           ELSE /\ pc' = "raised"
                /\ exc' = Raise("ValueError")
                /\ files' = files
    /\ UNCHANGED <<objVars, deepcopy, renumVars, idx, target_shape, target, idxVars, dtVars>>

\* line 157: del target_dat, and on to the next trial
CloseTrial ==
    /\ pc = "closetrial"
    /\ target_dat' = Unbound
    /\ sk' = sk + 1
    /\ pc' = "copytrials"
    /\ UNCHANGED <<objVars, files, deepcopy, trials, time_slice, sampleinfo, stop, idx,
                   target_shape, target, idxVars, dtVars, exc>>

\* the loop of line 147 is exhausted
CopyDone ==
    /\ pc = "copytrials"
    /\ sk = Len(trials)
    /\ pc' = "copied"
    /\ UNCHANGED <<objVars, files, deepcopy, renumVars, idx, target_shape, target, idxVars, dtVars, exc>>

\* the view opened writable instead of read-only
OpenMemmapView_Writable(file, index) == [file |-> file, mode |-> "r+", index |-> index]

\* open_memmap(filename, mode="r")[index]: a read-only view
OpenMemmapView(file, index) == [file |-> file, mode |-> "r", index |-> index]

\* lines 198-201: the target's data is a view of the source's file
ViewData ==
    /\ pc = "branch"
    /\ ~deepcopy
    /\ target' = [target EXCEPT !.data = OpenMemmapView(ObjFile, idx)]
    /\ pc' = "returned"
    /\ UNCHANGED <<objVars, files, deepcopy, renumVars, idx, target_shape, idxVars, dtVars, exc>>

\* the dataset of the selection flow: MaxTrials adjacent trials of MaxLen
\* samples each, MaxRef channels
AdjacentTrials == [k \in 1 .. MaxTrials |-> <<(k - 1) * MaxLen, k * MaxLen>>]
SelectRefs == { r \in RefVectors : Len(r) = MaxRef }
Dimords == { <<"time", "channel">>, <<"channel", "time">> }

\* time selectors: whatever may be written for a dimension
TimeSels == Selections

\* calls made to be rejected, or accepted, by one check each
FewSelections ==
    { Absent, OtherSel, IntSel(-1), IntSel(0),
      SliceSel(Slice(Some(1), Some(1), None)), ListSel(<<0, MaxRef>>) }
FewTimeSels ==
    { Absent, OtherSel, ListSel(<<0, 1>>), ListSel(<<0, MaxLen>>),
      TupleSel(<<NoneB>>), SliceSel(Slice(Some(1), Some(1), None)) }
TrialArgs ==
    { TrialsNone, TrialsInt(0),
      TrialsTuple(0, None), TrialsTuple(1, None), TrialsTuple(0, Some(MaxTrials + 1)),
      TrialsList(<<0>>), TrialsList(<<1, 0>>), TrialsList(<<MaxTrials>>) }
Labels == { "channel", "freq" }
Switches == { "deepcopy", "exact_match" }

\* a dimensional selector of any kind on either storage order
InitSelectChannel ==
    /\ dimord \in Dimords
    /\ ref \in SelectRefs
    /\ selection \in Selections \cup { Absent }
    /\ trials = TrialsNone
    /\ \E dc \in BOOLEAN :
          entry = AtEntry(AdjacentTrials, (ObjFile :> NewArray(ObjShape(dimord, AdjacentTrials, ref))),
                          dc, "channel", Absent, 0, {})

\* a time selector of any kind
InitSelectTime ==
    /\ dimord = <<"time", "channel">>
    /\ ref = Arange(0, MaxRef)
    /\ selection = Absent
    /\ trials = TrialsNone
    /\ \E dc \in BOOLEAN, tm \in TimeSels, tz \in 0 .. 1 :
          entry = AtEntry(AdjacentTrials, (ObjFile :> NewArray(ObjShape(dimord, AdjacentTrials, ref))),
                          dc, "channel", tm, tz, {})

\* trial filters, switches and keywords of any kind
InitSelectChecks ==
    /\ dimord = <<"time", "channel">>
    /\ ref = Arange(0, MaxRef)
    /\ selection \in FewSelections
    /\ trials \in TrialArgs
    /\ \E dc \in BOOLEAN, lb \in Labels, tm \in FewTimeSels, nb \in SUBSET Switches :
          entry = AtEntry(AdjacentTrials, (ObjFile :> NewArray(ObjShape(dimord, AdjacentTrials, ref))),
                          dc, lb, tm, 0, nb)

InitSelect ==
    /\ pc = "makeidx"
    /\ obj_sampleinfo = AdjacentTrials
    /\ InitSelectChannel \/ InitSelectTime \/ InitSelectChecks
    /\ files = entry.files
    /\ deepcopy = entry.deepcopy
    /\ exact_match \in BOOLEAN
    /\ selectors = [kind |-> "unset"]
    /\ time_slice = Slice(None, None, None)
    /\ sampleinfo = <<>>
    /\ stop = 0
    /\ sk = 0
    /\ target_dat = Unbound
    /\ idx = <<>>
    /\ target_shape = <<>>
    /\ target = [kind |-> "unset"]
    /\ DtIdle
    /\ TrlIdle
    /\ VaIdle

NextSelect ==
    \/ MakeIdx
    \/ CheckSwitches
    \/ TimePrepGiven
    \/ TimePrepNone
    \/ BuildIdx
    \/ CopyTarget
    \/ RenumberInit
    \/ RenumberStep
    \/ SetTargetShape
    \/ Allocate
    \/ OpenTrial
    \/ WriteTrial
    \/ CloseTrial
    \/ CopyDone
    \/ ViewData

SpecSelect == InitSelect /\ [][NextSelect]_vars

\* ------------------------------------------------------------ definetrial
\* np.round(num / den) for den > 0: to the nearest integer, ties to even
RoundHalfEven(num, den) ==
    LET q == num \div den
        r == num % den
    IN  IF 2 * r < den THEN q
        ELSE IF 2 * r > den THEN q + 1
        ELSE IF q % 2 = 0 THEN q ELSE q + 1

\* boundaries without the samplerate: pre and post taken as sample counts
TriggerBounds_NoRate(s, pre, post, sr) == <<s - pre, s + post>>

\* the trial around a trigger at sample s, pre and post in seconds:
\* [s / sr - pre, s / sr + post], kept as multiples of 1 / sr seconds
TriggerBounds(s, pre, post, sr) == <<s - pre * sr, s + post * sr>>

\* the boundaries handed on in samples of the event dataset
ToSamples_NoRescale(x, sr_e, sr_t) == x

\* np.round(sinfo * samplerate).astype(int) for sinfo = x / sr_e seconds
ToSamples(x, sr_e, sr_t) == RoundHalfEven(x * sr_t, sr_e)

\* the search restarted at the head of the stream instead of the cursor
IndexAfter_FromHead(data, cur, code) ==
    IF \E i \in 1 .. Len(data) : data[i][2] = code
    THEN CHOOSE i \in 1 .. Len(data) :
            data[i][2] = code /\ \A j \in 1 .. (i - 1) : data[j][2] /= code
    ELSE 0

\* dcodes.index(code) on the stream cut after `cur` events: the position
\* (1-based, in the whole stream) of the first event after the cursor that
\* carries the code; 0 if there is none (index raises)
IndexAfter(data, cur, code) ==
    IF \E i \in (cur + 1) .. Len(data) : data[i][2] = code
    THEN CHOOSE i \in (cur + 1) .. Len(data) :
            data[i][2] = code /\ \A j \in (cur + 1) .. (i - 1) : data[j][2] /= code
    ELSE 0

\* the code wanted for trial number k (0-based): the scalar, or entry k
CodeFor(codes, k) == IF codes.scalar THEN codes.seq[1] ELSE codes.seq[k + 1]

\* the boundaries clamped to one side only: a start below 0 only
Clamp_StartOnly(x, n) == IF x < 0 THEN 0 ELSE x

\* a boundary clamped to the recording [0, n]
Clamp(x, n) == IF x < 0 THEN 0 ELSE IF x > n THEN n ELSE x

\* the trial clamped; an emptied trial is dropped from the definition
ClipEdges_DropEmpty(sinfo, n) ==
    LET c == [k \in 1 .. Len(sinfo) |-> <<Clamp(sinfo[k][1], n), Clamp(sinfo[k][2], n)>>]
    IN  [raised |-> FALSE, sinfo |-> SelectSeq(c, LAMBDA row : row[1] /= row[2])]

\* clip_edges=True: every boundary clamped; a trial of zero length raises
ClipEdges(sinfo, n) ==
    LET c == [k \in 1 .. Len(sinfo) |-> <<Clamp(sinfo[k][1], n), Clamp(sinfo[k][2], n)>>]
    IN  [raised |-> \E k \in 1 .. Len(c) : c[k][1] = c[k][2], sinfo |-> c]

\* keyword sets
TriggerKw(pre, post, trigger, clip) ==
    [mode |-> "trigger", pre |-> pre, post |-> post, trigger |-> trigger, clip_edges |-> clip]
StartStopKw(start, stop_) ==
    [mode |-> "startstop", start |-> start, stop |-> stop_, clip_edges |-> FALSE]
Scalar(c) == [scalar |-> TRUE, seq |-> <<c>>]
PerTrial(q) == [scalar |-> FALSE, seq |-> q]

\* trigger mode: look at the next event of the stream; a trigger emits a trial
DtTrigger ==
    /\ pc = "dt_trigger"
    /\ cursor < Len(evt_data)
    /\ LET ev == evt_data[cursor + 1]
       IN  trl' = IF ev[2] = kw.trigger
                  THEN Append(trl, TriggerBounds(ev[1], kw.pre, kw.post, evt_samplerate))
                  ELSE trl
    /\ cursor' = cursor + 1
    /\ UNCHANGED <<pc, objVars, files, deepcopy, renumVars, idx, target_shape, target, idxVars,
                   evt_data, evt_samplerate, tgt, kw, cur_start, tgt_sampleinfo, exc>>

\* trigger mode: the stream is exhausted
DtTriggerEnd ==
    /\ pc = "dt_trigger"
    /\ cursor = Len(evt_data)
    /\ pc' = "dt_assign"
    /\ UNCHANGED <<objVars, files, deepcopy, renumVars, idx, target_shape, target, idxVars, dtVars, exc>>

\* start/stop mode: find the start of the next trial
DtFindStart ==
    /\ pc = "dt_start"
    /\ IF ~kw.start.scalar /\ Len(trl) = Len(kw.start.seq)
       THEN /\ pc' = "dt_assign"
            /\ UNCHANGED <<cursor, cur_start, exc>>
       ELSE LET i == IndexAfter(evt_data, cursor, CodeFor(kw.start, Len(trl)))
            IN  IF i = 0
                THEN /\ pc' = IF kw.start.scalar THEN "dt_assign" ELSE "dt_raised"
                     /\ exc' = IF kw.start.scalar THEN exc ELSE Raise("SPYValueError")
                     /\ UNCHANGED <<cursor, cur_start>>
                ELSE /\ pc' = "dt_stop"
                     /\ cur_start' = evt_data[i][1]
                     /\ cursor' = i
                     /\ exc' = exc
    /\ UNCHANGED <<objVars, files, deepcopy, renumVars, idx, target_shape, target, idxVars,
                   evt_data, evt_samplerate, tgt, kw, trl, tgt_sampleinfo>>

\* start/stop mode: find the stop of the trial begun
DtFindStop ==
    /\ pc = "dt_stop"
    /\ LET i == IndexAfter(evt_data, cursor, CodeFor(kw.stop, Len(trl)))
       IN  IF i = 0
           THEN /\ pc' = IF kw.stop.scalar THEN "dt_assign" ELSE "dt_raised"
                /\ exc' = IF kw.stop.scalar THEN exc ELSE Raise("SPYValueError")
                /\ UNCHANGED <<cursor, trl>>
           ELSE /\ pc' = "dt_start"
                /\ trl' = Append(trl, <<cur_start, evt_data[i][1]>>)
                /\ cursor' = i
                /\ exc' = exc
    /\ UNCHANGED <<objVars, files, deepcopy, renumVars, idx, target_shape, target, idxVars,
                   evt_data, evt_samplerate, tgt, kw, cur_start, tgt_sampleinfo>>

\* the boundaries in samples of the dataset definetrial was called on
Rescaled(bounds, sr_e, sr_t) ==
    [k \in 1 .. Len(bounds) |->
        <<ToSamples(bounds[k][1], sr_e, sr_t), ToSamples(bounds[k][2], sr_e, sr_t)>>]

\* rescale to the dataset's samplerate, clip if asked to, assign
DtAssign ==
    /\ pc = "dt_assign"
    /\ LET sinfo == Rescaled(trl, evt_samplerate, tgt.samplerate)
           clip  == ClipEdges(sinfo, tgt.nsamples)
       IN  IF kw.clip_edges
           THEN IF clip.raised
                THEN /\ pc' = "dt_raised"
                     /\ exc' = Raise("SPYValueError")
                     /\ tgt_sampleinfo' = tgt_sampleinfo
                ELSE pc' = "dt_done" /\ exc' = exc /\ tgt_sampleinfo' = clip.sinfo
           ELSE pc' = "dt_done" /\ exc' = exc /\ tgt_sampleinfo' = sinfo
    /\ UNCHANGED <<objVars, files, deepcopy, renumVars, idx, target_shape, target, idxVars,
                   evt_data, evt_samplerate, tgt, kw, cursor, cur_start, trl>>

\* the selection is not running
SelectIdle ==
    /\ exc = NoExc
    /\ dimord = <<"sample", "eventid">>
    /\ obj_sampleinfo = <<>>
    /\ ref = <<>>
    /\ files = <<>>
    /\ trials = <<>>
    /\ deepcopy = FALSE
    /\ exact_match = FALSE
    /\ selection = Absent
    /\ selectors = [kind |-> "unset"]
    /\ time_slice = Slice(None, None, None)
    /\ sampleinfo = <<>>
    /\ stop = 0
    /\ sk = 0
    /\ target_dat = Unbound
    /\ idx = <<>>
    /\ target_shape = <<>>
    /\ target = [kind |-> "unset"]
    /\ entry = [kind |-> "unset"]

\* event streams sorted by sample
Codes == { 0, 1, 2 }
TriggerCodes == { 0, 1 }
Samplerates == { 1, 2 }
Streams(codes) ==
    UNION { { d \in [1 .. n -> (0 .. MaxEvtSample) \X codes] :
                \A i \in 1 .. (n - 1) : d[i][1] <= d[i + 1][1] }
            : n \in 1 .. MaxEvents }

\* the datasets definetrial is called on: the event dataset itself, or a
\* continuous dataset of MaxEvtSample samples
Targets(sr_e) ==
    { [kind |-> "event", samplerate |-> sr_e, nsamples |-> 0] }
        \cup { [kind |-> "analog", samplerate |-> sr, nsamples |-> MaxEvtSample]
               : sr \in Samplerates }

InitTrigger ==
    /\ pc = "dt_trigger"
    /\ evt_data \in Streams(TriggerCodes)
    /\ evt_samplerate \in Samplerates
    /\ tgt \in Targets(evt_samplerate)
    /\ kw \in { TriggerKw(pre, post, 1, clip) :
                   pre \in 0 .. 2, post \in 0 .. 1, clip \in BOOLEAN }
    /\ (kw.clip_edges => tgt.kind = "analog")
    /\ cursor = 0
    /\ cur_start = 0
    /\ trl = <<>>
    /\ tgt_sampleinfo = <<>>
    /\ SelectIdle
    /\ TrlIdle
    /\ VaIdle

NextTrigger == DtTrigger \/ DtTriggerEnd \/ DtAssign

SpecTrigger == InitTrigger /\ [][NextTrigger]_vars

\* np.arange(0, ns, 5) with a code per event
SteppedStreams ==
    UNION { { [i \in 1 .. n |-> <<SampleStep * (i - 1), c[i]>>] : c \in [1 .. n -> Codes] }
            : n \in 1 .. MaxStream }

CodeSeqs == UNION { [1 .. n -> Codes] : n \in 1 .. MaxCodeSeq }

StartStopKws ==
    { StartStopKw(Scalar(a), Scalar(b)) : a \in Codes, b \in Codes }
        \cup { StartStopKw(PerTrial(p[1]), PerTrial(p[2])) :
                 p \in { q \in CodeSeqs \X CodeSeqs : Len(q[1]) = Len(q[2]) } }

InitStartStop ==
    /\ pc = "dt_start"
    /\ evt_data \in SteppedStreams
    /\ evt_samplerate = EventSamplerate
    /\ tgt = [kind |-> "event", samplerate |-> evt_samplerate, nsamples |-> 0]
    /\ kw \in StartStopKws
    /\ cursor = 0
    /\ cur_start = 0
    /\ trl = <<>>
    /\ tgt_sampleinfo = <<>>
    /\ SelectIdle
    /\ TrlIdle
    /\ VaIdle

NextStartStop == DtFindStart \/ DtFindStop \/ DtAssign

SpecStartStop == InitStartStop /\ [][NextStartStop]_vars

\* ------------------------------------- attaching to a continuous dataset
\* ang.definetrial(evt) after evt.definetrial(pre, post, trigger): the trial
\* definition the event dataset carries is rescaled to the samplerate of the
\* continuous dataset and assigned to it
DtAttach ==
    /\ pc = "dt_done"
    /\ tgt.kind = "event"
    /\ \E sr_a \in Samplerates :
          /\ tgt' = [kind |-> "analog", samplerate |-> sr_a, nsamples |-> MaxEvtSample]
          /\ tgt_sampleinfo' = Rescaled(tgt_sampleinfo, evt_samplerate, sr_a)
    /\ obj_sampleinfo' = tgt_sampleinfo
    /\ pc' = "dt_attached"
    /\ UNCHANGED <<vaVars, dimord, obj_t0, obj_trialinfo, obj_trialid, trialdefinition, files, deepcopy,
                   renumVars, idx, target_shape, target, idxVars,
                   evt_data, evt_samplerate, kw, cursor, cur_start, trl, exc>>

\* both routes of the tests: definetrial(pre, post, trigger) on the event
\* dataset, then attached, or on the continuous dataset at once
InitAttach ==
    /\ pc = "dt_trigger"
    /\ evt_data \in Streams(TriggerCodes)
    /\ evt_samplerate \in Samplerates
    /\ tgt \in Targets(evt_samplerate)
    /\ kw \in { TriggerKw(pre, post, 1, FALSE) : pre \in 0 .. 2, post \in 0 .. 1 }
    /\ cursor = 0
    /\ cur_start = 0
    /\ trl = <<>>
    /\ tgt_sampleinfo = <<>>
    /\ SelectIdle
    /\ TrlIdle
    /\ VaIdle

NextAttach == DtTrigger \/ DtTriggerEnd \/ DtAssign \/ DtAttach

SpecAttach == InitAttach /\ [][NextAttach]_vars

\* ------------------------------------------- the keywords of definetrial
KeywordNames == { "pre", "post", "trigger", "start", "stop" }

\* the keywords that are not None
GivenKeywords(e) == { n \in KeywordNames : ~IsNone(e[n]) }

\* a complete set is taken also when further keywords come with it
KeywordMode_Superset(given) ==
    IF { "pre", "post", "trigger" } \subseteq given THEN "trigger"
    ELSE IF { "start", "stop" } \subseteq given THEN "startstop"
    ELSE "invalid"

\* the keyword set is {pre, post, trigger} xor {start, stop}
KeywordMode(given) ==
    IF given = { "pre", "post", "trigger" } THEN "trigger"
    ELSE IF given = { "start", "stop" } THEN "startstop"
    ELSE "invalid"

\* definetrial looks at its keywords before it reads the event stream
DtValidate ==
    /\ pc = "dt_validate"
    /\ LET mode == KeywordMode(GivenKeywords(entry))
       IN  CASE mode = "trigger" ->
                  /\ kw' = TriggerKw(Val(entry.pre), Val(entry.post), Val(entry.trigger), FALSE)
                  /\ pc' = "dt_trigger"
                  /\ exc' = exc
             [] mode = "startstop" ->
                  /\ kw' = StartStopKw(Scalar(Val(entry.start)), Scalar(Val(entry.stop)))
                  /\ pc' = "dt_start"
                  /\ exc' = exc
             [] OTHER ->
                  /\ kw' = kw
                  /\ pc' = "dt_raised"
                  /\ exc' = Raise("SPYValueError")
    /\ UNCHANGED <<objVars, files, deepcopy, renumVars, idx, target_shape, target, idxVars,
                   evt_data, evt_samplerate, tgt, cursor, cur_start, trl, tgt_sampleinfo>>

\* the calls of the tests: pre, post and trigger = 1, start = 0, stop = 1,
\* each given or left out, with one keyword given at least
KeywordArgs ==
    { [kind |-> "definetrial", pre |-> a, post |-> b, trigger |-> c, start |-> d, stop |-> e] :
        a \in { None, Some(1) }, b \in { None, Some(1) }, c \in { None, Some(1) },
        d \in { None, Some(0) }, e \in { None, Some(1) } }
      \ { [kind |-> "definetrial", pre |-> None, post |-> None, trigger |-> None,
           start |-> None, stop |-> None] }

InitKeywords ==
    /\ pc = "dt_validate"
    /\ entry \in KeywordArgs
    /\ evt_data \in Streams(TriggerCodes)
    /\ evt_samplerate = 1
    /\ tgt = [kind |-> "event", samplerate |-> evt_samplerate, nsamples |-> 0]
    /\ kw = [mode |-> "none"]
    /\ cursor = 0
    /\ cur_start = 0
    /\ trl = <<>>
    /\ tgt_sampleinfo = <<>>
    /\ exc = NoExc
    /\ dimord = <<"sample", "eventid">>
    /\ obj_sampleinfo = <<>>
    /\ ref = <<>>
    /\ files = <<>>
    /\ trials = <<>>
    /\ deepcopy = FALSE
    /\ exact_match = FALSE
    /\ selection = Absent
    /\ selectors = [kind |-> "unset"]
    /\ time_slice = Slice(None, None, None)
    /\ sampleinfo = <<>>
    /\ stop = 0
    /\ sk = 0
    /\ target_dat = Unbound
    /\ idx = <<>>
    /\ target_shape = <<>>
    /\ target = [kind |-> "unset"]
    /\ TrlIdle
    /\ VaIdle

NextKeywords ==
    DtValidate \/ DtTrigger \/ DtTriggerEnd \/ DtFindStart \/ DtFindStop \/ DtAssign

SpecKeywords == InitKeywords /\ [][NextKeywords]_vars

\* ------------------------------------------------- load_binary_esi
\* lines 89-94: the next file is opened as a read-only memory map
VaOpen ==
    /\ pc = "va_open"
    /\ Len(dsets) < Len(headers)
    /\ dsets' = Append(dsets, Segment(Len(dsets) + 1, headers[Len(dsets) + 1]))
    /\ UNCHANGED <<pc, headers, out_data, va_read, dimord, obj_sampleinfo, obj_t0, obj_trialinfo,
                   obj_trialid, trialdefinition, files, deepcopy, renumVars, idx, target_shape,
                   target, idxVars, dtVars, exc>>

\* lines 97-100: the memory maps are made one VirtualData object, attached
\* to the output object
VaConstruct ==
    /\ pc = "va_open"
    /\ Len(dsets) = Len(headers)
    /\ out_data' = [segments |-> dsets, M |-> LogicalRows(dsets)]
    /\ pc' = "va_loaded"
    /\ UNCHANGED <<headers, dsets, va_read, dimord, obj_sampleinfo, obj_t0, obj_trialinfo,
                   obj_trialid, trialdefinition, files, deepcopy, renumVars, idx, target_shape,
                   target, idxVars, dtVars, exc>>

\* out.data[lo:hi]: a contiguous range of the logical array is read
VaGetItem ==
    /\ pc = "va_loaded"
    /\ \E lo \in 0 .. out_data.M : \E hi \in lo .. out_data.M :
          va_read' = [lo |-> lo, hi |-> hi, rows |-> GetItem(out_data.segments, lo, hi)]
    /\ UNCHANGED <<pc, headers, dsets, out_data, dimord, obj_sampleinfo, obj_t0, obj_trialinfo,
                   obj_trialid, trialdefinition, files, deepcopy, renumVars, idx, target_shape,
                   target, idxVars, dtVars, exc>>

\* the files given: 1 .. MaxSegments files of 1 .. MaxSegRows rows each
HeaderLists == UNION { [1 .. n -> 1 .. MaxSegRows] : n \in 1 .. MaxSegments }

InitVirtual ==
    /\ pc = "va_open"
    /\ headers \in HeaderLists
    /\ dsets = <<>>
    /\ out_data = Unbound
    /\ va_read = Unbound
    /\ SelectIdle
    /\ DtIdle
    /\ TrlIdle

NextVirtual == VaOpen \/ VaConstruct \/ VaGetItem

SpecVirtual == InitVirtual /\ [][NextVirtual]_vars

\* ---------------------------------------------------- definetrial properties
TriggerMode == kw.mode = "trigger"
StartStopMode == kw.mode = "startstop"

\* the events carrying the trigger code, in stream order
TriggerEvents == SelectSeq(evt_data, LAMBDA ev : ev[2] = kw.trigger)

\* C5 as stated: in trigger mode the derived sampleinfo of the event dataset
\* holds exactly one pair (sample - pre, sample + post) per event carrying the
\* trigger code, in stream order, and nothing else
C5_TriggerPairs ==
    (TriggerMode /\ pc = "dt_done" /\ tgt.kind = "event") =>
        /\ Len(tgt_sampleinfo) = Len(TriggerEvents)
        /\ \A k \in 1 .. Len(tgt_sampleinfo) :
              tgt_sampleinfo[k] = <<TriggerEvents[k][1] - kw.pre, TriggerEvents[k][1] + kw.post>>

\* C5 amended: in trigger mode the derived sampleinfo of the event dataset
\* holds exactly one pair (sample - pre * samplerate, sample + post *
\* samplerate) per event carrying the trigger code, in stream order, and
\* nothing else: pre and post are seconds
C5_TriggerPairsInSeconds ==
    (TriggerMode /\ pc = "dt_done" /\ tgt.kind = "event") =>
        /\ Len(tgt_sampleinfo) = Len(TriggerEvents)
        /\ \A k \in 1 .. Len(tgt_sampleinfo) :
              tgt_sampleinfo[k] = << TriggerEvents[k][1] - kw.pre * evt_samplerate,
                                    TriggerEvents[k][1] + kw.post * evt_samplerate >>

\* two triggers and an event of another code, samplerate 2, pre and post set
C5_Witness ==
    /\ TriggerMode /\ pc = "dt_done" /\ tgt.kind = "event"
    /\ evt_samplerate = 2 /\ kw.pre = 2 /\ kw.post = 1
    /\ Len(tgt_sampleinfo) = 2
    /\ Len(evt_data) = 3

\* the position in the stream of the event at sample s
PosOf(s) == s \div SampleStep + 1

\* no event strictly between positions lo and hi carries the code
NoneBetween(lo, hi, code) == \A j \in (lo + 1) .. (hi - 1) : evt_data[j][2] /= code

\* C6: in start/stop mode the start of trial k is the first event after the
\* stop event of trial k-1 (after the head of the stream for the first trial)
\* that carries the start code of trial k, its stop is the first event after
\* that start event that carries the stop code of trial k, events of other
\* codes in between are passed over, and the cursor stands on the last event
\* used, so it never falls back behind a boundary
C6_ForwardConsumption ==
    StartStopMode =>
        /\ \A k \in 1 .. Len(trl) :
              LET prev == IF k = 1 THEN 0 ELSE PosOf(trl[k - 1][2])
                  p    == PosOf(trl[k][1])
                  q    == PosOf(trl[k][2])
              IN  /\ prev < p /\ p < q /\ q <= Len(evt_data)
                  /\ evt_data[p] = <<trl[k][1], CodeFor(kw.start, k - 1)>>
                  /\ evt_data[q] = <<trl[k][2], CodeFor(kw.stop, k - 1)>>
                  /\ NoneBetween(prev, p, CodeFor(kw.start, k - 1))
                  /\ NoneBetween(p, q, CodeFor(kw.stop, k - 1))
        /\ (pc = "dt_start" /\ Len(trl) > 0) => cursor = PosOf(trl[Len(trl)][2])
        /\ pc = "dt_stop" =>
              /\ cursor > (IF Len(trl) = 0 THEN 0 ELSE PosOf(trl[Len(trl)][2]))
              /\ evt_data[cursor] = <<cur_start, CodeFor(kw.start, Len(trl))>>
              /\ NoneBetween(IF Len(trl) = 0 THEN 0 ELSE PosOf(trl[Len(trl)][2]), cursor,
                             CodeFor(kw.start, Len(trl)))
        /\ pc = "dt_done" => tgt_sampleinfo = trl

\* two trials, the second start code also present before the first stop, and
\* an event of a third code passed over
C6_Witness ==
    /\ StartStopMode /\ pc = "dt_done"
    /\ Len(tgt_sampleinfo) = 2
    /\ \E j \in 1 .. Len(evt_data) :
          /\ PosOf(tgt_sampleinfo[1][1]) < j /\ j < PosOf(tgt_sampleinfo[1][2])
          /\ evt_data[j][2] \notin { CodeFor(kw.start, 0), CodeFor(kw.stop, 0) }
    /\ \E j \in 1 .. PosOf(tgt_sampleinfo[1][2]) : evt_data[j][2] = CodeFor(kw.start, 1)

Clipping == TriggerMode /\ kw.clip_edges /\ tgt.kind = "analog"

\* the trials in samples of the continuous dataset, before clipping
Unclipped == Rescaled(trl, evt_samplerate, tgt.samplerate)

\* C7: after definetrial with clip_edges=True succeeded on a continuous
\* dataset of n samples every trial has 0 <= start < stop <= n, a start
\* below 0 became 0, a stop above n became n, and boundaries inside [0, n]
\* are the derived ones
C7_ClippedInsideRecording ==
    (Clipping /\ pc = "dt_done") =>
        /\ Len(tgt_sampleinfo) = Len(Unclipped)
        /\ \A k \in 1 .. Len(tgt_sampleinfo) :
              LET a == Unclipped[k][1]
                  b == Unclipped[k][2]
                  n == tgt.nsamples
              IN  /\ 0 <= tgt_sampleinfo[k][1]
                  /\ tgt_sampleinfo[k][1] < tgt_sampleinfo[k][2]
                  /\ tgt_sampleinfo[k][2] <= n
                  /\ a < 0 => tgt_sampleinfo[k][1] = 0
                  /\ b > n => tgt_sampleinfo[k][2] = n
                  /\ (0 <= a /\ a <= n) => tgt_sampleinfo[k][1] = a
                  /\ (0 <= b /\ b <= n) => tgt_sampleinfo[k][2] = b

\* one trial clipped at the start, one at the stop
C7_Witness ==
    /\ Clipping /\ pc = "dt_done"
    /\ \E k \in 1 .. Len(Unclipped) : Unclipped[k][1] < 0
    /\ \E k \in 1 .. Len(Unclipped) : Unclipped[k][2] > tgt.nsamples

\* a trial of the definition is empty once clamped to the recording
CollapsedTrial ==
    \E k \in 1 .. Len(Unclipped) :
        Clamp(Unclipped[k][1], tgt.nsamples) = Clamp(Unclipped[k][2], tgt.nsamples)

\* C8: if clipping leaves a trial of zero length definetrial raises: no
\* trial definition is assigned, neither one with the empty trial in it nor
\* one it was dropped from
C8_CollapsedTrialRaises ==
    (Clipping /\ CollapsedTrial /\ pc \in { "dt_done", "dt_raised" }) =>
        /\ pc = "dt_raised"
        /\ tgt_sampleinfo = <<>>

\* a definition of two trials of which clipping empties only the last
C8_Witness ==
    /\ Clipping /\ pc = "dt_raised"
    /\ Len(Unclipped) = 2
    /\ Unclipped[1][1] < Unclipped[1][2]
    /\ Unclipped[1][2] <= tgt.nsamples
    /\ Unclipped[2][1] < Unclipped[2][2]
    /\ Unclipped[2][1] >= tgt.nsamples

\* ---------------------------------------------------------- redefinetrial
\* a trial definition is a table, one row per trial: start and stop in
\* samples, the offset in half samples (the table may hold floats), then
\* further columns
Halves(h) == h

\* int() rounding down instead of towards zero
IntCast_Floor(h) == h \div 2

\* np.array(x, dtype=int) of the float h / 2: the fraction is cut off
IntCast(h) == IF h >= 0 THEN h \div 2 ELSE -((-h) \div 2)

\* obj.data[:, obj.dimord.index("sample")]
SampleColumn(data, dims) ==
    LET sidx == (CHOOSE i \in 1 .. Len(dims) : dims[i] = "sample")
    IN  [i \in 1 .. Len(data) |-> data[i][sidx]]

\* np.searchsorted(a, v, side="right", sorter=a.argsort()): the number of
\* entries of a that are <= v
SearchsortedRight(a, v) == Cardinality({ k \in 1 .. Len(a) : a[k] <= v })

\* np.nanmin, np.nanmax of a column without NaN
ColumnMin(c) == CHOOSE m \in { c[i] : i \in 1 .. Len(c) } : \A i \in 1 .. Len(c) : m <= c[i]
ColumnMax(c) == CHOOSE m \in { c[i] : i \in 1 .. Len(c) } : \A i \in 1 .. Len(c) : m >= c[i]

\* the object is of a discrete class (SpikeData, EventData)
IsDiscrete == tgt.kind = "event"

\* lines 337-348: without a trial definition the whole recording is one trial
RtDefaults ==
    /\ pc = "rt_check"
    /\ trialdefinition' =
          IF ~IsNone(trialdefinition) THEN trialdefinition
          ELSE IF ~IsDiscrete THEN << <<0, tgt.nsamples, Halves(0)>> >>
          ELSE << << ColumnMin(SampleColumn(evt_data, dimord)),
                     ColumnMax(SampleColumn(evt_data, dimord)), Halves(0) >> >>
    /\ pc' = "rt_assign"
    /\ UNCHANGED <<vaVars, dimord, obj_sampleinfo, obj_t0, obj_trialinfo, obj_trialid, files, deepcopy,
                   renumVars, idx, target_shape, target, idxVars, dtVars, exc>>

\* lines 351-359: the table has three columns or more and is taken apart
RtAssign ==
    /\ pc = "rt_assign"
    /\ IF Len(trialdefinition[1]) < 3
       THEN /\ pc' = "rt_raised"
            /\ exc' = Raise("SPYValueError")
            /\ UNCHANGED <<obj_sampleinfo, obj_t0, obj_trialinfo>>
       ELSE /\ obj_sampleinfo' = [k \in 1 .. Len(trialdefinition) |->
                                    <<trialdefinition[k][1], trialdefinition[k][2]>>]
            /\ obj_t0' = [k \in 1 .. Len(trialdefinition) |-> IntCast(trialdefinition[k][3])]
            /\ obj_trialinfo' = [k \in 1 .. Len(trialdefinition) |->
                                   SubSeq(trialdefinition[k], 4, Len(trialdefinition[k]))]
            /\ pc' = IF IsDiscrete THEN "rt_trialid" ELSE "rt_done"
            /\ exc' = exc
    /\ UNCHANGED <<vaVars, dimord, obj_trialid, trialdefinition, files, deepcopy,
                   renumVars, idx, target_shape, target, idxVars, dtVars>>

\* the entries <<row, column>> of obj.data that are NaN or Inf: none of
\* them, the event code of the first row, or all of them
DataEntries == { <<i, j>> : i \in 1 .. Len(evt_data), j \in 1 .. Len(dimord) }
NonFiniteEntries ==
    CASE tgt.finite = "all" -> {}
      [] tgt.finite = "some" -> { e \in DataEntries : e[1] = 1 /\ dimord[e[2]] /= "sample" }
      [] OTHER -> DataEntries

\* np.isfinite(obj.data).any()
AnyFinite == DataEntries \ NonFiniteEntries /= {}

\* lines 362-374: the events of a discrete object get their trial numbers
RtTrialid ==
    /\ pc = "rt_trialid"
    /\ IF ~AnyFinite
       THEN /\ pc' = "rt_raised"
            /\ exc' = Raise("SPYValueError")
            /\ obj_trialid' = obj_trialid
       ELSE /\ obj_trialid' =
                  LET samples == SampleColumn(evt_data, dimord)
                      starts  == [k \in 1 .. Len(obj_sampleinfo) |-> obj_sampleinfo[k][1]]
                  IN  [i \in 1 .. Len(samples) |-> SearchsortedRight(starts, samples[i]) - 1]
            /\ pc' = "rt_done"
            /\ exc' = exc
    /\ UNCHANGED <<vaVars, dimord, obj_sampleinfo, obj_t0, obj_trialinfo, trialdefinition, files, deepcopy,
                   renumVars, idx, target_shape, target, idxVars, dtVars>>

\* tables of 2, 3 or 4 columns
T0Halves == { -3, 2 }
InfoValues == { 1 }
TrialRows(w) ==
    CASE w = 2 -> TrialPairs
      [] w = 3 -> { p \o <<h>> : p \in TrialPairs, h \in T0Halves }
      [] OTHER -> { p \o <<h, x>> : p \in TrialPairs, h \in T0Halves, x \in InfoValues }
Tables == UNION { [1 .. n -> TrialRows(w)] : n \in 1 .. MaxTrials, w \in 2 .. 4 }

\* a discrete object with one event at every sample 0 .. MaxEvtSample, its
\* columns in the order of dims
EventRows(dims) ==
    [i \in 1 .. (MaxEvtSample + 1) |->
        [j \in 1 .. 2 |-> IF dims[j] = "sample" THEN i - 1 ELSE (i - 1) % 2]]

\* a recording whose first event comes after sample 0
LateEventRows(dims) ==
    [i \in 1 .. MaxEvtSample |->
        [j \in 1 .. 2 |-> IF dims[j] = "sample" THEN i ELSE i % 2]]

EventDimords == { <<"sample", "eventid">>, <<"eventid", "sample">> }

InitRedefine ==
    /\ pc = "rt_check"
    /\ \/ /\ dimord \in EventDimords
          /\ tgt \in { [kind |-> "event", samplerate |-> 1, nsamples |-> 0, finite |-> f]
                        : f \in { "all", "some", "none" } }
          /\ trialdefinition \in Tables \cup { None }
          /\ tgt.finite = "none" => ~IsNone(trialdefinition)
          /\ tgt.finite /= "all" => dimord = <<"sample", "eventid">>
          /\ evt_data \in { EventRows(dimord) }
                \cup (IF IsNone(trialdefinition) THEN { LateEventRows(dimord) } ELSE {})
          /\ obj_trialid = [i \in 1 .. Len(evt_data) |-> 0]
       \/ /\ dimord = <<"time", "channel">>
          /\ evt_data = <<>>
          /\ tgt = [kind |-> "analog", samplerate |-> 1, nsamples |-> MaxEvtSample, finite |-> "all"]
          /\ trialdefinition \in Tables \cup { None }
          /\ obj_trialid = <<>>
    /\ obj_sampleinfo = << <<0, MaxEvtSample>> >>
    /\ obj_t0 = <<0>>
    /\ obj_trialinfo = << <<>> >>
    /\ evt_samplerate = 1
    /\ kw = [mode |-> "none"]
    /\ cursor = 0
    /\ cur_start = 0
    /\ trl = <<>>
    /\ tgt_sampleinfo = <<>>
    /\ exc = NoExc
    /\ ref = <<>>
    /\ files = <<>>
    /\ trials = <<>>
    /\ deepcopy = FALSE
    /\ exact_match = FALSE
    /\ selection = Absent
    /\ selectors = [kind |-> "unset"]
    /\ time_slice = Slice(None, None, None)
    /\ sampleinfo = <<>>
    /\ stop = 0
    /\ sk = 0
    /\ target_dat = Unbound
    /\ idx = <<>>
    /\ target_shape = <<>>
    /\ target = [kind |-> "unset"]
    /\ entry = [kind |-> "redefinetrial", trialdefinition |-> trialdefinition]
    /\ VaIdle

NextRedefine == RtDefaults \/ RtAssign \/ RtTrialid

SpecRedefine == InitRedefine /\ [][NextRedefine]_vars

\* the selector is a value range whose bounds are numbers or None
IsNumericRange(sel) ==
    /\ sel.type = "tuple"
    /\ Len(sel.elems) = 2
    /\ \A k \in 1 .. 2 : sel.elems[k].t \in { "num", "none" }

\* index matched by a bound: the nearest reference value, or the first
\* resp. last index for None
MatchedIndex(r, b, pos) ==
    IF b.t = "none" THEN (IF pos = 0 THEN 0 ELSE Len(r) - 1) ELSE ArgminAbs(r, b.v)

\* C3: with exact_match = False a value range over a numeric reference
\* vector resolves to the slice from the index of the value nearest to lo
\* to the index of the value nearest to hi, inclusive: start = matched index
\* of lo, stop = matched index of hi + 1.
C3_RangeIsIndexSlice ==
    (pc = "resolved" /\ ~exact_match /\ IsNumericRange(selection)) =>
        selectors = SliceIdx(Some(MatchedIndex(ref, selection.elems[1], 0)),
                             Some(MatchedIndex(ref, selection.elems[2], 1) + 1),
                             None)

\* --------------------------------------------- selection flow: properties
\* the selector is the in-bounds contiguous ascending list [a, ..., b]
IsContiguousList(sel, n) ==
    /\ sel.type = "list"
    /\ Len(sel.list) >= 1
    /\ InRange(sel.list, n)
    /\ \A k \in 1 .. (Len(sel.list) - 1) : sel.list[k + 1] = sel.list[k] + 1

\* the positions of a dimension of length n an index selects, in order
SelectedPositions(sel, n) ==
    CASE sel.kind = "slice" ->
            LET r == SliceIndices(sel.slice, n)
            IN  [k \in 1 .. RangeLen(r) |-> r.start + (k - 1) * r.step]
      [] sel.kind = "list" -> sel.list
      [] sel.kind = "int" -> <<sel.v>>
      [] OTHER -> <<>>

\* the index of the dimension `channel` in the multi-index
ChannelIdx == idx[DimIndex("channel") + 1]

\* C4: selecting with the in-bounds contiguous list [a, ..., b] resolves to
\* the same index object and the same output array as slice(a, b + 1), and
\* the list does not force the copy path.
C4_ListLikeSlice ==
    (pc = "branch" /\ IsContiguousList(selection, Len(ref))) =>
        LET a == selection.list[1]
            b == selection.list[Len(selection.list)]
            asSlice == MakeIdxDim(ref, SliceSel(Slice(Some(a), Some(b + 1), None)), exact_match)
        IN  /\ ChannelIdx = asSlice
            /\ SelectedPositions(ChannelIdx, Len(ref)) = SelectedPositions(asSlice, Len(ref))
            /\ deepcopy = entry.deepcopy

\* every entry of the multi-index is a slice
AllSlices == \A i \in 1 .. Len(idx) : idx[i].kind = "slice"

\* C9: on the view path (deepcopy false, every resolved index a slice) no
\* file is allocated, the result's data is a read-only view of the source's
\* file under the combined per-dimension slices, the source's data and
\* sampleinfo are as they were at the call, and the trial offsets of the
\* result are not renumbered.
C9_ViewLeavesSource ==
    (pc = "returned" /\ AllSlices) =>
        /\ ~deepcopy
        /\ files = entry.files
        /\ DOMAIN files = { ObjFile }
        /\ target.filename = ObjFile
        /\ target.data = [file |-> ObjFile, mode |-> "r", index |-> idx]
        /\ idx[Tid + 1] = [kind |-> "slice", slice |-> time_slice]
        /\ ChannelIdx = (IF selectors.kind = "absent" THEN SliceAll ELSE selectors)
        /\ obj_sampleinfo = entry.sampleinfo
        /\ target.sampleinfo = entry.sampleinfo

C9_Witness ==
    /\ pc = "returned"
    /\ AllSlices
    /\ selectors.kind = "slice"
    /\ RangeLen(SliceIndices(selectors.slice, Len(ref))) < Len(ref)

CopyPath == pc \in { "renumber", "allocate", "copytrials" }
ViewPath == pc = "returned"

\* C10 as claimed: an index that is not a slice (a list or a single integer)
\* forces the copy path; the view path is taken only if deepcopy is false
\* and every resolved index is a slice.
C10_NonSliceForcesCopy ==
    /\ ViewPath => (~entry.deepcopy /\ AllSlices)
    /\ CopyPath => (entry.deepcopy \/ ~AllSlices)

\* C10 as amended: an explicit index list forces the copy path even if
\* deepcopy = False was passed; the view path is taken exactly if deepcopy
\* is false and every resolved index is a slice or a single integer.
C10_ListForcesCopy ==
    /\ ViewPath => (~entry.deepcopy /\ \A i \in 1 .. Len(idx) : idx[i].kind \in { "slice", "int" })
    /\ CopyPath => (entry.deepcopy \/ \E i \in 1 .. Len(idx) : idx[i].kind = "list")
    /\ CopyPath => deepcopy

C10_Witness ==
    /\ CopyPath
    /\ ~entry.deepcopy
    /\ ChannelIdx.kind = "list"

\* --------------------------------------------- _makeidx: more properties
MakeidxReturned == pc \in { "resolved", "raised" }

C17_FloatIsNearestIndex ==
    (MakeidxReturned /\ ~exact_match /\ selection.type = "float") =>
        /\ pc = "resolved"
        /\ selectors.v \in 0 .. (Len(ref) - 1)
        /\ \A j \in 1 .. Len(ref) :
              Abs(ref[selectors.v + 1] - selection.v) <= Abs(ref[j] - selection.v)

\* C20: an index list with an index outside [0, len(ref)) and a single int
\* outside [0, len(ref)), negative ones included, are rejected with a value
\* error; an int inside the range is returned as it is
C20_IndexBoundsChecked ==
    MakeidxReturned =>
        /\ (selection.type = "list"
               /\ \E k \in 1 .. Len(selection.list) :
                      selection.list[k] < 0 \/ selection.list[k] >= Len(ref))
              => selectors = Raise("SPYValueError")
        /\ selection.type = "int" =>
              IF selection.v < 0 \/ selection.v >= Len(ref)
              THEN selectors = Raise("SPYValueError")
              ELSE pc = "resolved" /\ selectors = IntIdx(selection.v)

\* a list rejected for a negative index alone
C20_Witness ==
    /\ pc = "raised"
    /\ selection.type = "list"
    /\ Len(selection.list) = 2
    /\ selection.list[1] = 0 /\ selection.list[2] = -1

\* ------------------------------------------ time selector: properties
\* _makeidx returned and the switches were accepted: line 56 was reached
TimePrepReached ==
    /\ pc \notin { "makeidx", "resolved", "time" }
    /\ selectors.kind \notin { "unset", "error" }
    /\ entry.nonbool = {}

\* number of samples of the first selected trial
FirstTrialLen == obj_sampleinfo[trials[1] + 1][2] - obj_sampleinfo[trials[1] + 1][1]

\* C12: a time list whose consecutive differences are not all equal, or
\* that holds an index outside the first selected trial's time axis, is
\* rejected with a value error; the contiguous in-range list [a, ..., b] is
\* accepted and becomes slice(a, b + 1)
C12_TimeListChecked ==
    (TimePrepReached /\ entry.time.type = "list") =>
        LET l == entry.time.list
        IN  /\ (~InRange(l, FirstTrialLen) \/ UniqueDiffSize(l) > 1) =>
                  pc = "raised" /\ exc = Raise("SPYValueError")
            /\ IsContiguousList(entry.time, FirstTrialLen) =>
                  time_slice = Slice(Some(l[1]), Some(l[Len(l)] + 1), None)

\* ------------------------------------------------ validation: properties
\* the request fails a check: an unknown dimension or a bad trial filter
\* (_makeidx raised before it resolved anything), a selector _makeidx
\* rejected, a switch that is no bool, or a time selector that is rejected
RequestInvalid ==
    \/ ~KnownDimensions
    \/ pc = "raised" /\ selectors.kind = "unset"
    \/ selectors.kind = "error"
    \/ entry.nonbool /= {}
    \/ /\ pc /= "makeidx"
       /\ selectors.kind \notin { "unset", "error" }
       /\ entry.time.type /= "absent"
       /\ IsError(TimeSlice(TimeRef(obj_sampleinfo, trials, entry.t0), entry.time, exact_match))

\* C11: a request that fails validation never gets past the checks: it ends
\* raised with no target copy made and no file allocated, and the source's
\* data, sampleinfo and dimord are as they were at the call
C11_ValidationBeforeAllocation ==
    RequestInvalid =>
        /\ pc \in { "makeidx", "resolved", "time", "raised" }
        /\ (pc = "raised" => IsError(exc))
        /\ target = [kind |-> "unset"]
        /\ files = entry.files
        /\ DOMAIN files = { ObjFile }
        /\ obj_sampleinfo = entry.sampleinfo
        /\ dimord = entry.dimord

\* a request with deepcopy=True rejected by the last of the checks, the one
\* of the time selector
C11_Witness ==
    /\ pc = "raised"
    /\ entry.deepcopy
    /\ TimePrepReached
    /\ entry.time.type = "list"
    /\ RequestInvalid

\* ------------------------------------------------ copy loop: properties
\* the writable handle to the new array is open
HandleOpen == target_dat /= Unbound

\* C18: the writable handle to the new array is open only inside the
\* iteration of one trial, on the region of that trial: it is not open
\* between two iterations, not after the loop, and not after the write of a
\* trial raised
C18_HandlePerTrial ==
    /\ HandleOpen =>
          /\ sk < Len(trials)
          /\ target_dat = OpenMemmapWritable(NewFile, sampleinfo[sk + 1])
    /\ pc \in { "copytrials", "copied" } => ~HandleOpen
    /\ pc = "raised" => ~HandleOpen

\* the trial definition the object carries before redefinetrial is called
PriorSampleinfo == << <<0, MaxEvtSample>> >>
PriorT0 == <<0>>
PriorTrialinfo == << <<>> >>

\* redefinetrial is past lines 351-359 with the table taken apart
RtAssigned == pc \in { "rt_trialid", "rt_done" } \/ (pc = "rt_raised" /\ Len(trialdefinition[1]) >= 3)

\* C19: a trial definition of fewer than 3 columns raises a value error and
\* leaves sampleinfo, _t0 and trialinfo as they were; one of 3 or more
\* columns sets sampleinfo to columns 0-1, _t0 to the whole-number part of
\* column 2 and trialinfo to the columns after it, each with one row per trial
C19_ColumnsTakenApart ==
    /\ (pc = "rt_raised" /\ Len(trialdefinition[1]) < 3) =>
          /\ exc = Raise("SPYValueError")
          /\ obj_sampleinfo = PriorSampleinfo
          /\ obj_t0 = PriorT0
          /\ obj_trialinfo = PriorTrialinfo
    /\ (pc = "rt_assign" /\ Len(trialdefinition[1]) < 3) => ENABLED RtAssign
    /\ RtAssigned =>
          /\ Len(trialdefinition[1]) >= 3
          /\ Len(obj_sampleinfo) = Len(trialdefinition)
          /\ Len(obj_t0) = Len(trialdefinition)
          /\ Len(obj_trialinfo) = Len(trialdefinition)
          /\ \A k \in 1 .. Len(trialdefinition) :
                /\ obj_sampleinfo[k] = SubSeq(trialdefinition[k], 1, 2)
                /\ 2 * obj_t0[k] * trialdefinition[k][3] >= 0
                /\ (IF trialdefinition[k][3] >= 0
                     THEN trialdefinition[k][3] - 2 * obj_t0[k]
                     ELSE 2 * obj_t0[k] - trialdefinition[k][3]) \in { 0, 1 }
                /\ Len(obj_trialinfo[k]) = Len(trialdefinition[k]) - 3
                /\ \A j \in 1 .. Len(obj_trialinfo[k]) :
                      obj_trialinfo[k][j] = trialdefinition[k][j + 3]

\* a table of two columns was refused, or one of four columns with two
\* trials and a negative fractional offset was taken apart
C19_Witness ==
    \/ pc = "rt_raised" /\ Len(trialdefinition[1]) = 2 /\ Len(trialdefinition) = MaxTrials
    \/ /\ pc = "rt_done"
       /\ Len(trialdefinition) = MaxTrials
       /\ Len(trialdefinition[1]) = 4
       /\ trialdefinition[1][3] = -3
       /\ obj_t0[1] = -1

\* no sample lies in two trials of the definition si
PairwiseDisjoint(si) ==
    \A j, k \in 1 .. Len(si) :
        j /= k => (si[j][2] <= si[k][1] \/ si[k][2] <= si[j][1])

\* _get_trial(k) of a discrete object: the positions of the rows whose
\* trialid is k
GetTrial(k) == { i \in 1 .. Len(evt_data) : obj_trialid[i] = k }

\* C13: for a discrete dataset with pairwise disjoint trials the rows of
\* trial k are exactly those whose sample s, found through dimord, satisfies
\* sampleinfo[k].start <= s < sampleinfo[k].stop
C13_TrialRowsWithinBounds ==
    (pc = "rt_done" /\ IsDiscrete /\ PairwiseDisjoint(obj_sampleinfo)) =>
        \A k \in 1 .. Len(obj_sampleinfo) :
            GetTrial(k - 1) =
                { i \in 1 .. Len(evt_data) :
                    /\ obj_sampleinfo[k][1] <= SampleColumn(evt_data, dimord)[i]
                    /\ SampleColumn(evt_data, dimord)[i] < obj_sampleinfo[k][2] }

\* the incomplete keyword sets of the tests
IncompleteSets ==
    { { "trigger", "post" }, { "pre", "trigger" }, { "start" }, { "stop" },
      { "trigger" }, { "pre", "post" } }

\* C14: definetrial on event data raises a value error for every incomplete
\* keyword set (trigger with only post, trigger with only pre, start without
\* stop, stop without start, trigger alone, pre and post without trigger);
\* only the complete set {pre, post, trigger} or the complete set
\* {start, stop} is accepted
C14_IncompleteKeywordsRaise ==
    (entry.kind = "definetrial" /\ pc /= "dt_validate") =>
        /\ GivenKeywords(entry) \in IncompleteSets =>
              /\ pc = "dt_raised"
              /\ exc = Raise("SPYValueError")
              /\ trl = <<>>
              /\ tgt_sampleinfo = <<>>
        /\ pc /= "dt_raised" =>
              GivenKeywords(entry) \in { { "pre", "post", "trigger" }, { "start", "stop" } }
        /\ GivenKeywords(entry) = { "pre", "post", "trigger" } => kw.mode = "trigger"
        /\ GivenKeywords(entry) = { "start", "stop" } => kw.mode = "startstop"

\* the call with trigger and post but without pre was refused
C14_Witness ==
    /\ entry.kind = "definetrial"
    /\ pc = "dt_raised"
    /\ GivenKeywords(entry) = { "trigger", "post" }

\* the continuous dataset has its trial definition, by either route
AttachedLater == pc = "dt_attached"
AttachedAtOnce == pc = "dt_done" /\ tgt.kind = "analog" /\ TriggerMode /\ ~kw.clip_edges

\* the boundaries of trial k in samples of the event dataset
EventBoundary(k) ==
    << TriggerEvents[k][1] - kw.pre * evt_samplerate,
       TriggerEvents[k][1] + kw.post * evt_samplerate >>

SliceEmpty(sl, n) == RangeLen(SliceIndices(sl, n)) = 0

\* C21: a slice selector whose range over the reference vector (for time:
\* over the time axis of the first selected trial) holds no index is
\* rejected with a value error; every other slice is passed through with
\* its start, stop and step as given
C21_EmptySliceRejected ==
    /\ (selection.type = "slice" /\ selectors.kind /= "unset") =>
          IF SliceEmpty(selection.slice, Len(ref))
          THEN pc = "raised" /\ exc = Raise("SPYValueError")
          ELSE selectors = [kind |-> "slice", slice |-> selection.slice]
    /\ (TimePrepReached /\ entry.time.type = "slice") =>
          IF SliceEmpty(entry.time.slice, FirstTrialLen)
          THEN pc = "raised" /\ exc = Raise("SPYValueError")
          ELSE time_slice = entry.time.slice

\* --------------------------------------- unsupported selectors: properties
\* the bound is a string, a number or None
BoundSupported(b) == b.t \in { "str", "num", "none" }

\* the first bound of the value range is one the code rejects for its value:
\* a string or, with exact_match, a number that is no reference value
FirstBoundRejected ==
    \/ selection.elems[1].t = "str"
    \/ selection.elems[1].t = "num" /\ exact_match /\ ~HasValue(ref, selection.elems[1].v)

DefaultAssigned ==
    /\ entry.kind = "redefinetrial"
    /\ IsNone(entry.trialdefinition)
    /\ IsDiscrete
    /\ pc \in { "rt_trialid", "rt_done" }

\* C23: a discrete dataset made from a data array without a trial definition
\* has exactly one trial, with sampleinfo [0, largest sample of the data],
\* t0 = 0 and a trialinfo of one row without columns
C23_DefaultTrialFromZero ==
    DefaultAssigned =>
        /\ obj_sampleinfo = << <<0, ColumnMax(SampleColumn(evt_data, dimord))>> >>
        /\ obj_t0 = <<0>>
        /\ obj_trialinfo = << <<>> >>

\* ------------------------------------------------ data that is not finite
\* C30: redefinetrial on a discrete dataset raises a value error whenever
\* the data holds at least one Inf or NaN entry, and then assigns no trialid
C30_NonFiniteRaises ==
    (entry.kind = "redefinetrial" /\ IsDiscrete /\ NonFiniteEntries /= {}
        /\ pc \in { "rt_done", "rt_raised" }) =>
        /\ pc = "rt_raised"
        /\ exc = Raise("SPYValueError")
        /\ obj_trialid = [i \in 1 .. Len(evt_data) |-> 0]

\* ------------------------------------------------ VirtualData: properties
\* the rows of segments 1 .. k, one after the other
RECURSIVE Concatenation(_, _)
Concatenation(segs, k) ==
    IF k = 0 THEN <<>> ELSE Concatenation(segs, k - 1) \o segs[k].rows

\* C24: a contiguous range read from a VirtualData object holds exactly the
\* rows, in order, that the same range of the concatenation of its segments
\* holds, also when the range begins in one segment and ends in another;
\* reading changes neither the segments nor the logical shape
C24_ReadsLikeConcatenation ==
    /\ pc = "va_loaded" =>
          /\ Len(out_data.segments) = Len(headers)
          /\ \A k \in 1 .. Len(headers) : out_data.segments[k] = Segment(k, headers[k])
          /\ out_data.M = Len(Concatenation(out_data.segments, Len(headers)))
    /\ (pc = "va_loaded" /\ va_read /= Unbound) =>
          va_read.rows = SubSeq(Concatenation(out_data.segments, Len(out_data.segments)),
                                va_read.lo + 1, va_read.hi)

\* a range was read that begins in the first of three segments and ends in
\* the third
C24_Witness ==
    /\ pc = "va_loaded"
    /\ va_read /= Unbound
    /\ Len(out_data.segments) = 3
    /\ Len(va_read.rows) >= 3
    /\ va_read.rows[1][1] = 1
    /\ va_read.rows[Len(va_read.rows)][1] = 3
    /\ va_read.lo > 0
    /\ va_read.hi < out_data.M

\* ----------------------------------------- renumbering: the allocated array
\* C25: after the renumbering every selected trial has a range with
\* 0 <= start < stop <= T, T the length of the time axis of the new array
\* (the stop of the last selected trial), whatever the order and overlap of
\* the trials, so that no write of a trial leaves the allocated array
C25_RangesInsideAllocation ==
    RenumberDone =>
        \A k \in 1 .. Len(sampleinfo) :
            /\ 0 <= sampleinfo[k][1]
            /\ sampleinfo[k][1] < sampleinfo[k][2]
            /\ sampleinfo[k][2] <= target_shape[Tid + 1]

\* number of samples the time slice selects from the k-th selected trial:
\* the length of source_trl[idx] along the time axis
SelectedSamples(k) ==
    RangeLen(SliceIndices(time_slice, SourceRow(k)[2] - SourceRow(k)[1]))

\* C26: for every selected trial the length stop - start of the region of
\* the new array assigned to it is the number of samples the time slice
\* selects from the trial, also for a step above 1 and for open bounds
C26_RegionMatchesSelection ==
    RenumberDone =>
        \A k \in 1 .. Len(sampleinfo) :
            sampleinfo[k][2] - sampleinfo[k][1] = SelectedSamples(k)

\* ------------------------------------------ list made a slice: properties
\* C27: an index list inside the reference vector whose consecutive
\* differences are all equal is made a selector that selects exactly the
\* indices of the list, also when the difference is above 1
C27_DowngradeKeepsIndices ==
    (MakeidxReturned /\ selection.type = "list"
        /\ InRange(selection.list, Len(ref)) /\ UniqueDiffSize(selection.list) = 1) =>
        /\ pc = "resolved"
        /\ selectors.kind = "slice"
        /\ RangeSet(SliceIndices(selectors.slice, Len(ref)))
              = { selection.list[k] : k \in 1 .. Len(selection.list) }

\* ------------------------------------------ time value range: properties
\* the time selector is a range of two numbers, not to be matched exactly
TimeRangeNearest ==
    /\ TimePrepReached
    /\ ~exact_match
    /\ entry.time.type = "tuple"
    /\ Len(entry.time.elems) = 2
    /\ entry.time.elems[1].t = "num"
    /\ entry.time.elems[2].t = "num"

\* C28: a time range (lo, hi) with exact_match = False gives one slice whose
\* start and stop are the indices, on the time axis of the first selected
\* trial, of the time points nearest to lo and to hi, and that slice is the
\* time entry of the index applied to every selected trial
C28_TimeRangeIsIndexSlice ==
    TimeRangeNearest =>
        LET r == TimeRef(obj_sampleinfo, trials, entry.t0)
        IN  /\ time_slice = Slice(Some(ArgminAbs(r, entry.time.elems[1].v)),
                                  Some(ArgminAbs(r, entry.time.elems[2].v)), None)
            /\ idx /= <<>> => idx[Tid + 1] = [kind |-> "slice", slice |-> time_slice]

\* ------------------------------------------- the call of _makeidx: roles
\* _makeidx has returned to _selectdata_continuous
CallReturned == pc \in { "resolved", "time", "timeprep" } \/ exc = Raise("AttributeError")

\* C29: what _selectdata_continuous uses as the trial filter is the array
\* of trial numbers _makeidx validated, and what it uses as the selector
\* mapping is the dictionary of resolved indices
C29_ReturnRolesMatch ==
    CallReturned =>
        /\ trials.kind = "list"
        /\ selectors.kind = "dict"
        /\ exc = NoExc

====
